---- MODULE Spec2Model ----
(***************************************************************************)
(* A model of the cashgb Game Boy emulator core: the PPU dot-clock state   *)
(* machine (src/src/ppu), the memory bus that routes accesses to it        *)
(* (src/src/memory/mod.rs), the cartridge mappers behind the bus           *)
(* (src/src/memory/mbc.rs) and the CPU step loop (src/src/cpu/mod.rs).     *)
(***************************************************************************)
EXTENDS Integers, Sequences, FiniteSets, TLC

VARIABLES
    ppu,              \* MemoryBus.ppu : Ppu (mode, dots, scanline, registers, vram, oam, frame_ready)
    if_reg,           \* MemoryBus.io_registers[0x0F], the IF register at 0xFF0F
    ie,               \* MemoryBus.ie, the IE register at 0xFFFF
    status,           \* Cpu.status
    program_counter,  \* Cpu.program_counter
    stack_pointer,    \* Cpu.stack_pointer
    step_count,       \* Cpu.step_count
    instruction,      \* Cpu.instruction
    ime,              \* Cpu.ime
    ime_next,         \* Cpu.ime_next
    rom,              \* the cartridge ROM bytes (NoMBC.rom / MBC1.rom) at the offsets read
    cart,             \* MemoryBus.cart : the mapper's registers and its RAM
    w_ram,            \* MemoryBus.w_ram, eight banks of work RAM
    w_ram_bank,       \* MemoryBus.w_ram_bank
    panicked,         \* TRUE once a panic!() has unwound the emulator
    register,         \* Cpu.register : Register (af, bc, de, hl)
    h_ram,            \* MemoryBus.h_ram at the offsets the stack uses
    last,             \* the operation performed last, its arguments and what it returned
    mcycles,          \* machine cycles delivered to the PPU in the VBlank-entry scenario
    vblanks,          \* VBlank interrupts returned to the caller in that scenario
    delivered         \* dots handed to Ppu::step in the dot-delivery scenario

vars == <<ppu, if_reg, ie, status, program_counter, stack_pointer, step_count,
          instruction, ime, ime_next, rom, cart, w_ram, w_ram_bank, panicked,
          register, h_ram, last, mcycles, vblanks, delivered>>

busVars == <<if_reg, ie>>
cpuVars == <<status, program_counter, stack_pointer, step_count, instruction,
             ime, ime_next, rom>>
memVars == <<cart, w_ram, w_ram_bank>>
execVars == <<register, h_ram>>
scenarioVars == <<mcycles, vblanks, delivered>>

(***************************************************************************)
(* Bit arithmetic on bytes.                                                *)
(***************************************************************************)
Pow2(k) ==
    CASE k = 0 -> 1 [] k = 1 -> 2 [] k = 2 -> 4 [] k = 3 -> 8
      [] k = 4 -> 16 [] k = 5 -> 32 [] k = 6 -> 64 [] k = 7 -> 128
      [] k = 8 -> 256

Bit(v, k) == (v \div Pow2(k)) % 2

BitAnd(a, b) ==
    LET term(k) == Bit(a, k) * Bit(b, k) * Pow2(k)
    IN  term(0) + term(1) + term(2) + term(3) + term(4) + term(5) + term(6) + term(7)

BitOr(a, b) == a + b - BitAnd(a, b)

(***************************************************************************)
(* LcdMode and the timing thresholds of the four mode handlers.            *)
(***************************************************************************)
LcdMode == {"HBlank", "VBlank", "OamScan", "Drawing"}

ModeCode(m) ==
    CASE m = "HBlank"  -> 0
      [] m = "VBlank"  -> 1
      [] m = "OamScan" -> 2
      [] m = "Drawing" -> 3

OAM_SCAN_DOTS == 80
DRAWING_DOTS == 172
HBLANK_DOTS == 204
DOTS_PER_SCANLINE == 456
VISIBLE_SCANLINES == 144
SCANLINES_PER_FRAME == 154

(***************************************************************************)
(* Addresses of the bus and the interrupt bits.                            *)
(***************************************************************************)
ADDR_VRAM == 32768    \* 0x8000
ADDR_OAM == 65024     \* 0xFE00
ADDR_IF == 65295      \* 0xFF0F
ADDR_LCDC == 65344    \* 0xFF40
ADDR_STAT == 65345    \* 0xFF41
ADDR_LY == 65348      \* 0xFF44
ADDR_LYC == 65349     \* 0xFF45
ADDR_IE == 65535      \* 0xFFFF
ADDR_WRAM == 49152    \* 0xC000
ADDR_ECHO == 57344    \* 0xE000
ADDR_UNUSABLE == 65184    \* 0xFEA0
ADDR_SVBK == 65392    \* 0xFF70
ADDR_HRAM == 65408    \* 0xFF80
OPEN_BUS == 255       \* 0xFF

Interrupt == {"VBlank", "LCD", "Timer", "Serial", "Joypad"}

InterruptBit(i) ==
    CASE i = "VBlank" -> 0
      [] i = "LCD"    -> 1
      [] i = "Timer"  -> 2
      [] i = "Serial" -> 3
      [] i = "Joypad" -> 4

InterruptMask(i) == Pow2(InterruptBit(i))

(***************************************************************************)
(* Bounds of the model.                                                    *)
(***************************************************************************)
MaxProg == 2       \* bytes of program the CPU fetches from 0x0100 on
MaxLine == 1       \* scanlines the PPU walks while the CPU specification runs

VramAddrs == {ADDR_VRAM}              \* the VRAM bytes that are modelled
OamAddrs == {ADDR_OAM}                \* the OAM bytes that are modelled
DataBytes == {66, 153}                \* 0x42, 0x99
WramOffsets == {0}                    \* the offsets modelled in each work RAM bank
HramOffsets == 122 .. 125             \* 0xFFFA..0xFFFD, two stack slots below 0xFFFE
CycleChoices == {100, 172, 255}       \* dots handed to one Ppu::step call

(***************************************************************************)
(* PpuRegisters (src/src/ppu/registers.rs).                                *)
(***************************************************************************)
PpuRegisters_new == [lcdc |-> 145, stat |-> 0, ly |-> 0, lyc |-> 0]

is_lcd_enabled(r) == Bit(r.lcdc, 7) = 1
is_lyc_interrupt_enabled(r) == Bit(r.stat, 6) = 1
is_oam_interrupt_enabled(r) == Bit(r.stat, 5) = 1
is_vblank_interrupt_enabled(r) == Bit(r.stat, 4) = 1
is_hblank_interrupt_enabled(r) == Bit(r.stat, 3) = 1
get_lyc_flag(r) == Bit(r.stat, 2) = 1

set_lyc_flag(r, value) ==
    [r EXCEPT !.stat = r.stat - 4 * Bit(r.stat, 2) + (IF value THEN 4 ELSE 0)]

set_mode(r, m) == [r EXCEPT !.stat = (r.stat \div 4) * 4 + ModeCode(m)]

set_ly(r, value) == [r EXCEPT !.ly = value]

read_stat(r) == r.stat + 128 * (1 - Bit(r.stat, 7))

write_stat(r, value) ==
    [r EXCEPT !.stat = (r.stat % 8) + ((value \div 8) % 16) * 8]

read_register(r, addr) ==
    CASE addr = ADDR_LCDC -> r.lcdc
      [] addr = ADDR_STAT -> read_stat(r)
      [] addr = ADDR_LY   -> r.ly
      [] addr = ADDR_LYC  -> r.lyc
      [] OTHER            -> OPEN_BUS

write_register(r, addr, value) ==
    CASE addr = ADDR_LCDC -> [r EXCEPT !.lcdc = value]
      [] addr = ADDR_STAT -> write_stat(r, value)
      [] addr = ADDR_LY   -> r
      [] addr = ADDR_LYC  -> [r EXCEPT !.lyc = value]
      [] OTHER            -> r

(***************************************************************************)
(* Ppu (src/src/ppu/mod.rs).  A handler yields the PPU after it and the    *)
(* interrupt it returns ("None" for Option::None).  The sprite scan of     *)
(* handle_oam_scan and the rasterisation of handle_drawing write only the  *)
(* renderer buffers and the framebuffer, which are not part of the state   *)
(* yet; timing, registers, VRAM, OAM and the frame latch are.              *)
(***************************************************************************)
Ppu_new ==
    [mode |-> "OamScan", dots |-> 0, scanline |-> 0,
     registers |-> PpuRegisters_new,
     vram |-> [a \in VramAddrs |-> 0],
     oam |-> [a \in OamAddrs |-> 0],
     frame_ready |-> FALSE]

\* handle_oam_scan leaving OamScan one call late (> for >=).
handle_oam_scan_strict(p) ==
    IF p.dots > OAM_SCAN_DOTS
    THEN [ppu |-> [p EXCEPT !.dots = 0, !.mode = "Drawing",
                            !.registers = set_mode(p.registers, "Drawing")],
          irq |-> "None"]
    ELSE [ppu |-> p, irq |-> "None"]

handle_oam_scan(p) ==
    IF p.dots >= OAM_SCAN_DOTS
    THEN [ppu |-> [p EXCEPT !.dots = 0, !.mode = "Drawing",
                            !.registers = set_mode(p.registers, "Drawing")],
          irq |-> "None"]
    ELSE [ppu |-> p, irq |-> "None"]

handle_drawing(p) ==
    IF p.dots >= DRAWING_DOTS
    THEN [ppu |-> [p EXCEPT !.dots = 0, !.mode = "HBlank",
                            !.registers = set_mode(p.registers, "HBlank")],
          irq |-> IF is_hblank_interrupt_enabled(p.registers) THEN "LCD" ELSE "None"]
    ELSE [ppu |-> p, irq |-> "None"]

handle_hblank(p) ==
    IF p.dots >= HBLANK_DOTS
    THEN LET line == (p.scanline + 1) % 256
             r1 == set_ly(p.registers, line)
             p1 == [p EXCEPT !.dots = 0, !.scanline = line, !.registers = r1]
         IN  IF line >= VISIBLE_SCANLINES
             THEN [ppu |-> [p1 EXCEPT !.mode = "VBlank",
                                      !.registers = set_mode(r1, "VBlank"),
                                      !.frame_ready = TRUE],
                   irq |-> "VBlank"]
             ELSE LET r2 == set_mode(r1, "OamScan")
                      p2 == [p1 EXCEPT !.mode = "OamScan", !.registers = r2]
                  IN  IF is_oam_interrupt_enabled(r2)
                      THEN [ppu |-> p2, irq |-> "LCD"]
                      ELSE IF is_lyc_interrupt_enabled(r2) /\ line = r2.lyc
                           THEN [ppu |-> [p2 EXCEPT !.registers = set_lyc_flag(r2, TRUE)],
                                 irq |-> "LCD"]
                           ELSE [ppu |-> [p2 EXCEPT !.registers = set_lyc_flag(r2, FALSE)],
                                 irq |-> "None"]
    ELSE [ppu |-> p, irq |-> "None"]

\* handle_vblank wrapping one line late (> for >=).
handle_vblank_late_wrap(p) ==
    IF p.dots >= DOTS_PER_SCANLINE
    THEN LET line == (p.scanline + 1) % 256
             r1 == set_ly(p.registers, line)
             p1 == [p EXCEPT !.dots = 0, !.scanline = line, !.registers = r1]
         IN  IF line > SCANLINES_PER_FRAME
             THEN LET r2 == set_mode(set_ly(r1, 0), "OamScan")
                  IN  [ppu |-> [p1 EXCEPT !.scanline = 0, !.mode = "OamScan",
                                          !.registers = r2],
                       irq |-> IF is_oam_interrupt_enabled(r2) THEN "LCD" ELSE "None"]
             ELSE [ppu |-> p1, irq |-> "None"]
    ELSE [ppu |-> p, irq |-> "None"]

\* handle_vblank that never starts a new frame.
handle_vblank_never_wraps(p) ==
    IF p.dots >= DOTS_PER_SCANLINE
    THEN LET line == (p.scanline + 1) % 256
         IN  [ppu |-> [p EXCEPT !.dots = 0, !.scanline = line,
                                !.registers = set_ly(p.registers, line)],
              irq |-> "None"]
    ELSE [ppu |-> p, irq |-> "None"]

handle_vblank(p) ==
    IF p.dots >= DOTS_PER_SCANLINE
    THEN LET line == (p.scanline + 1) % 256
             r1 == set_ly(p.registers, line)
             p1 == [p EXCEPT !.dots = 0, !.scanline = line, !.registers = r1]
         IN  IF line >= SCANLINES_PER_FRAME
             THEN LET r2 == set_mode(set_ly(r1, 0), "OamScan")
                  IN  [ppu |-> [p1 EXCEPT !.scanline = 0, !.mode = "OamScan",
                                          !.registers = r2],
                       irq |-> IF is_oam_interrupt_enabled(r2) THEN "LCD" ELSE "None"]
             ELSE [ppu |-> p1, irq |-> "None"]
    ELSE [ppu |-> p, irq |-> "None"]

\* step without the LCD-enable check.
step_ignores_lcdc(p, cycles) ==
    LET q == [p EXCEPT !.dots = p.dots + cycles]
    IN  CASE q.mode = "OamScan" -> handle_oam_scan(q)
          [] q.mode = "Drawing" -> handle_drawing(q)
          [] q.mode = "HBlank"  -> handle_hblank(q)
          [] q.mode = "VBlank"  -> handle_vblank(q)

step(p, cycles) ==
    IF ~is_lcd_enabled(p.registers)
    THEN [ppu |-> p, irq |-> "None"]
    ELSE LET q == [p EXCEPT !.dots = p.dots + cycles]
         IN  CASE q.mode = "OamScan" -> handle_oam_scan(q)
               [] q.mode = "Drawing" -> handle_drawing(q)
               [] q.mode = "HBlank"  -> handle_hblank(q)
               [] q.mode = "VBlank"  -> handle_vblank(q)

reset(p) == Ppu_new

is_frame_ready(p) == p.frame_ready

\* get_framebuffer that forgets to clear the latch.
get_framebuffer_keeps_latch(p) == p

get_framebuffer(p) == [p EXCEPT !.frame_ready = FALSE]

\* read_vram without the Drawing-mode gate.
read_vram_ungated(p, addr) ==
    IF addr \in DOMAIN p.vram THEN p.vram[addr] ELSE OPEN_BUS

read_vram(p, addr) ==
    IF p.mode = "Drawing" THEN OPEN_BUS
    ELSE IF addr \in DOMAIN p.vram THEN p.vram[addr] ELSE OPEN_BUS

write_vram(p, addr, value) ==
    IF p.mode = "Drawing" THEN p
    ELSE IF addr \in DOMAIN p.vram THEN [p EXCEPT !.vram[addr] = value] ELSE p

read_oam(p, addr) ==
    IF p.mode \in {"OamScan", "Drawing"} THEN OPEN_BUS
    ELSE IF addr \in DOMAIN p.oam THEN p.oam[addr] ELSE OPEN_BUS

write_oam(p, addr, value) ==
    IF p.mode \in {"OamScan", "Drawing"} THEN p
    ELSE IF addr \in DOMAIN p.oam THEN [p EXCEPT !.oam[addr] = value] ELSE p

(***************************************************************************)
(* Cartridge mappers (src/src/memory/mbc.rs) behind Cart::read and         *)
(* Cart::write (src/src/memory/cart/mod.rs).  A read yields an Option<u8>. *)
(* The mapper is a record of the fields of MBC1; NoMBC has only its ROM    *)
(* and leaves the bank registers at their MBC1 construction values.  ROM   *)
(* bytes are passed as a function on the offsets that are read.            *)
(***************************************************************************)
Some(v) == [some |-> TRUE, value |-> v]
None == [some |-> FALSE, value |-> 0]

ROM_BANK_SIZE == 16384      \* 0x4000
RAM_BANK_SIZE == 8192       \* 0x2000
ADDR_CART_RAM == 40960      \* 0xA000

RomOffsets(rom_size) == {b * ROM_BANK_SIZE : b \in 0 .. ((rom_size \div ROM_BANK_SIZE) - 1)}
RamOffsets(ram_size) == {b * RAM_BANK_SIZE : b \in 0 .. ((ram_size \div RAM_BANK_SIZE) - 1)}

\* get_rom_size on an accepted code: the size as a u32, the bank count as the
\* u8 `2u8 << code`, the shift amount taken modulo 8 as an unchecked shift does.
get_rom_size(code) ==
    [size |-> 32768 * Pow2(code), banks |-> (2 * Pow2(code % 8)) % 256]

\* Whether the shift `2u8 << code` has a shift amount of 8 bits or more, on
\* which a build with overflow checks panics.
get_rom_size_overflows(code) == code >= 8

get_ram_size(code) ==
    CASE code = 0 -> [size |-> 0, banks |-> 0]
      [] code = 2 -> [size |-> 8192, banks |-> 1]
      [] code = 3 -> [size |-> 32768, banks |-> 4]

MBC1_new(rom_size, ram_size, rom_banks, ram_banks) ==
    [mapper |-> "MBC1", rom_size |-> rom_size,
     ram |-> [o \in RamOffsets(ram_size) |-> 0], ram_size |-> ram_size,
     rom_bank |-> 1, ram_bank |-> 0, ram_enabled |-> FALSE, mode |-> "Rom",
     rom_banks |-> rom_banks, ram_banks |-> ram_banks]

NoMBC_new(rom_size) ==
    [MBC1_new(rom_size, 0, 2, 0) EXCEPT !.mapper = "None"]

NoMBC_read(c, bytes, addr) ==
    IF addr \in 0 .. 32767
    THEN IF addr < c.rom_size THEN Some(bytes[addr]) ELSE None
    ELSE None

NoMBC_write(c, addr, value) == c

\* Whether MBC1::read computes a bank mask `banks - 1` on a bank count of 0,
\* on which a build with overflow checks panics.
MBC1_read_overflows(c, addr) ==
    CASE addr \in 0 .. 16383 -> c.mode = "Ram" /\ c.rom_banks = 0
      [] addr \in 16384 .. 32767 -> c.rom_banks = 0
      [] addr \in ADDR_CART_RAM .. 49151 ->
            c.ram_enabled /\ c.mode = "Ram" /\ c.ram_banks = 0
      [] OTHER -> FALSE

\* MBC1::read, the subtractions `banks - 1` wrapping.
MBC1_read(c, bytes, addr) ==
    CASE addr \in 0 .. 16383 ->
            LET effective_bank ==
                    IF c.mode = "Rom" THEN 0
                    ELSE BitAnd((c.ram_bank * 32) % 256, (c.rom_banks + 255) % 256)
                rom_addr == effective_bank * ROM_BANK_SIZE + addr
            IN  IF rom_addr < c.rom_size THEN Some(bytes[rom_addr]) ELSE None
      [] addr \in 16384 .. 32767 ->
            LET effective_bank ==
                    BitAnd(IF c.mode = "Rom"
                           THEN BitOr(c.rom_bank, (c.ram_bank * 32) % 256)
                           ELSE c.rom_bank,
                           (c.rom_banks + 255) % 256)
                rom_addr == effective_bank * ROM_BANK_SIZE + (addr - 16384)
            IN  IF rom_addr < c.rom_size THEN Some(bytes[rom_addr]) ELSE None
      [] addr \in ADDR_CART_RAM .. 49151 ->
            IF ~c.ram_enabled
            THEN Some(OPEN_BUS)
            ELSE LET effective_bank ==
                         IF c.mode = "Rom" THEN 0
                         ELSE BitAnd(c.ram_bank, (c.ram_banks + 255) % 256)
                     ram_addr == effective_bank * RAM_BANK_SIZE + (addr - ADDR_CART_RAM)
                 IN  IF ram_addr < c.ram_size THEN Some(c.ram[ram_addr]) ELSE None
      [] OTHER -> None

\* MBC1::write keeping a ROM-bank value of 0 as it is.
MBC1_write_keeps_zero(c, addr, value) ==
    CASE addr \in 0 .. 8191 -> [c EXCEPT !.ram_enabled = (BitAnd(value, 10) = 10)]
      [] addr \in 8192 .. 16383 -> [c EXCEPT !.rom_bank = value % 32]
      [] addr \in 16384 .. 24575 -> [c EXCEPT !.ram_bank = value % 4]
      [] addr \in 24576 .. 32767 ->
            [c EXCEPT !.mode = IF value % 2 = 0 THEN "Rom" ELSE "Ram"]
      [] addr \in ADDR_CART_RAM .. 49151 ->
            IF ~c.ram_enabled
            THEN c
            ELSE LET effective_bank ==
                         IF c.mode = "Rom" THEN 0
                         ELSE BitAnd(c.ram_bank, (c.ram_banks + 255) % 256)
                     ram_addr == effective_bank * RAM_BANK_SIZE + (addr - ADDR_CART_RAM)
                 IN  IF ram_addr < c.ram_size
                     THEN [c EXCEPT !.ram[ram_addr] = value]
                     ELSE c
      [] OTHER -> c

MBC1_write(c, addr, value) ==
    CASE addr \in 0 .. 8191 -> [c EXCEPT !.ram_enabled = (BitAnd(value, 10) = 10)]
      [] addr \in 8192 .. 16383 ->
            LET bank == value % 32
            IN  [c EXCEPT !.rom_bank = IF bank = 0 THEN 1 ELSE bank]
      [] addr \in 16384 .. 24575 -> [c EXCEPT !.ram_bank = value % 4]
      [] addr \in 24576 .. 32767 ->
            [c EXCEPT !.mode = IF value % 2 = 0 THEN "Rom" ELSE "Ram"]
      [] addr \in ADDR_CART_RAM .. 49151 ->
            IF ~c.ram_enabled
            THEN c
            ELSE LET effective_bank ==
                         IF c.mode = "Rom" THEN 0
                         ELSE BitAnd(c.ram_bank, (c.ram_banks + 255) % 256)
                     ram_addr == effective_bank * RAM_BANK_SIZE + (addr - ADDR_CART_RAM)
                 IN  IF ram_addr < c.ram_size
                     THEN [c EXCEPT !.ram[ram_addr] = value]
                     ELSE c
      [] OTHER -> c

create_mbc(mapper_type, rom_size, ram_size, rom_banks, ram_banks) ==
    CASE mapper_type = "None" -> NoMBC_new(rom_size)
      [] mapper_type = "MBC1" -> MBC1_new(rom_size, ram_size, rom_banks, ram_banks)

Cart_read(c, bytes, addr) ==
    IF c.mapper = "MBC1" THEN MBC1_read(c, bytes, addr) ELSE NoMBC_read(c, bytes, addr)

Cart_write(c, addr, value) ==
    IF c.mapper = "MBC1" THEN MBC1_write(c, addr, value) ELSE NoMBC_write(c, addr, value)

(***************************************************************************)
(* Register (src/src/register.rs): four 16-bit pairs; F is the low byte of *)
(* af.                                                                     *)
(***************************************************************************)
Register_new == [af |-> 0, bc |-> 0, de |-> 0, hl |-> 0]

get_a(r) == r.af \div 256
set_a(r, value) == [r EXCEPT !.af = (r.af % 256) + value * 256]
get_f(r) == r.af % 256
set_f(r, value) == [r EXCEPT !.af = (r.af \div 256) * 256 + value]
get_af(r) == r.af
set_af(r, value) == [r EXCEPT !.af = value]
get_b(r) == r.bc \div 256

\* set_b, set_d and set_h: (pair & 0x00ff) | value as u16, the value not shifted.
set_b(r, value) == [r EXCEPT !.bc = BitOr(r.bc % 256, value)]
get_c(r) == r.bc % 256
set_c(r, value) == [r EXCEPT !.bc = (r.bc \div 256) * 256 + value]
set_bc(r, value) == [r EXCEPT !.bc = value]
get_d(r) == r.de \div 256
set_d(r, value) == [r EXCEPT !.de = BitOr(r.de % 256, value)]
get_e(r) == r.de % 256
set_e(r, value) == [r EXCEPT !.de = (r.de \div 256) * 256 + value]
set_de(r, value) == [r EXCEPT !.de = value]
get_h(r) == r.hl \div 256
set_h(r, value) == [r EXCEPT !.hl = BitOr(r.hl % 256, value)]
get_l(r) == r.hl % 256
set_l(r, value) == [r EXCEPT !.hl = (r.hl \div 256) * 256 + value]
set_hl(r, value) == [r EXCEPT !.hl = value]

\* The registers as Cpu::reset leaves them: AF=0x01B0 BC=0x0013 DE=0x00D8 HL=0x014D.
Register_reset == set_hl(set_de(set_bc(set_af(Register_new, 432), 19), 216), 333)

FLAG_Z == 128            \* Flag::Z = 1 << 7
FLAG_N == 64             \* Flag::N = 1 << 6
FLAG_H == 32             \* Flag::H = 1 << 5
FLAG_C == 16             \* Flag::C = 1 << 4

(***************************************************************************)
(* Cpu (src/src/cpu/mod.rs) and the opcode decoder                         *)
(* (src/src/cpu/instructions.rs), for the opcodes the programs use.        *)
(***************************************************************************)
RESET_PC == 256          \* 0x0100
RESET_SP == 65534        \* 0xFFFE
OP_NOP == 0              \* 0x00
OP_STOP == 16            \* 0x10
OP_HALT == 118           \* 0x76
OP_DI == 243             \* 0xF3
OP_EI == 251             \* 0xFB
OP_CCF == 63             \* 0x3F
OP_PUSH_BC == 197        \* 0xC5
OP_POP_AF == 241         \* 0xF1
OP_CALL == 205           \* 0xCD
OP_CALL_NC == 212        \* 0xD4

Opcodes == {OP_NOP, OP_STOP, OP_HALT, OP_DI, OP_EI}

\* 0xD3 0xE3 0xE4 0xF4 0xDB 0xEB 0xEC 0xFC 0xDD 0xED 0xFD: no instruction.
UnassignedOpcodes == {211, 227, 228, 244, 219, 235, 236, 252, 221, 237, 253}

\* Whether Instruction::get_instruction(byte) panics instead of returning.
get_instruction_panics(byte) == byte \in UnassignedOpcodes
ProgAddrs == RESET_PC .. (RESET_PC + MaxProg - 1)

get_instruction(byte) ==
    CASE byte = OP_NOP  -> [instr |-> "Nop", cycles |-> 1]
      [] byte = OP_STOP -> [instr |-> "Stop", cycles |-> 2]
      [] byte = OP_HALT -> [instr |-> "Halt", cycles |-> 1]
      [] byte = OP_DI   -> [instr |-> "DisableInterrupts", cycles |-> 1]
      [] byte = OP_EI   -> [instr |-> "EnableInterrupts", cycles |-> 1]
      [] byte = OP_CCF  -> [instr |-> "ComplementCarryFlag", cycles |-> 1]
      [] byte = OP_PUSH_BC -> [instr |-> "Push(BC)", cycles |-> 3]
      [] byte = OP_POP_AF  -> [instr |-> "Pop(AF)", cycles |-> 3]
      [] byte = OP_CALL -> [instr |-> "Call(C)", cycles |-> 6]
      [] byte = OP_CALL_NC -> [instr |-> "Call(NC)", cycles |-> 3]

ADDR_BOOT_OFF == 65360          \* 0xFF50, the boot ROM disable register

\* Cpu::read and Cpu::write on the CPU fields c, for the cartridge ROM, the
\* high RAM that holds the stack and the boot ROM disable register, the one
\* address for which MemoryBus::write returns a new CPU status.
Cpu_read(c, addr) ==
    CASE addr \in 0 .. 32767 -> rom[addr]
      [] addr \in ADDR_HRAM .. 65534 -> c.h_ram[addr - ADDR_HRAM]

Cpu_write(c, addr, value) ==
    CASE addr \in ADDR_HRAM .. 65534 -> [c EXCEPT !.h_ram[addr - ADDR_HRAM] = value]
      [] addr = ADDR_BOOT_OFF -> [c EXCEPT !.status = "Stopped"]

get_flag(c, flag) == BitAnd(get_f(c.register), flag) = flag
set_flag(c, flag) == [c EXCEPT !.register = set_f(c.register, BitOr(get_f(c.register), flag))]
clear_flag(c, flag) ==
    [c EXCEPT !.register = set_f(c.register, BitAnd(get_f(c.register), 255 - flag))]
update_flag(c, flag, value) == IF value THEN set_flag(c, flag) ELSE clear_flag(c, flag)

\* Cpu::complement_carry_flag.
complement_carry_flag(c) ==
    clear_flag(clear_flag(update_flag(c, FLAG_C, ~get_flag(c, FLAG_C)), FLAG_N), FLAG_H)

\* Cpu::push(PushTarget::BC).
push_bc(c) ==
    LET c1 == Cpu_write([c EXCEPT !.stack_pointer = c.stack_pointer - 1],
                        c.stack_pointer - 1, get_b(c.register))
    IN  Cpu_write([c1 EXCEPT !.stack_pointer = c1.stack_pointer - 1],
                  c1.stack_pointer - 1, get_c(c.register))

\* Cpu::pop(PopTarget::AF).
pop_af(c) ==
    LET n == Cpu_read(c, c.stack_pointer) + 256 * Cpu_read(c, c.stack_pointer + 1)
    IN  [c EXCEPT !.stack_pointer = c.stack_pointer + 2,
                  !.register = set_af(c.register, n)]

\* Cpu::restart(addr): push the program counter, then jump.
restart(c, addr) ==
    LET c1 == Cpu_write([c EXCEPT !.stack_pointer = c.stack_pointer - 1],
                        c.stack_pointer - 1, c.program_counter \div 256)
        c2 == Cpu_write([c1 EXCEPT !.stack_pointer = c1.stack_pointer - 1],
                        c1.stack_pointer - 1, c.program_counter % 256)
    IN  [c2 EXCEPT !.program_counter = addr]

\* Cpu::call(condition).
call(c, condition) ==
    IF condition = "None"
    THEN LET addr == Cpu_read(c, c.program_counter)
                        + 256 * Cpu_read(c, c.program_counter + 1)
         IN  restart([c EXCEPT !.program_counter = c.program_counter + 2], addr)
    ELSE IF (CASE condition = "Z" -> get_flag(c, FLAG_Z)
               [] condition = "C" -> get_flag(c, FLAG_C)
               [] condition = "NZ" -> ~get_flag(c, FLAG_Z)
               [] condition = "NC" -> ~get_flag(c, FLAG_C))
         THEN [c EXCEPT !.instruction = "Call(None)", !.step_count = 3]
         ELSE [c EXCEPT !.program_counter = c.program_counter + 3]

\* The CPU fields after process_instruction ran on c (a record of the fields).
process_instruction(c) ==
    LET d == [c EXCEPT !.step_count = 0]
    IN  CASE d.instruction = "Nop"  -> d
          [] d.instruction = "EnableInterrupts"  -> [d EXCEPT !.ime = TRUE]
          [] d.instruction = "DisableInterrupts" -> [d EXCEPT !.ime = FALSE]
          [] d.instruction = "Halt" -> [d EXCEPT !.status = "Halted"]
          [] d.instruction = "Stop" ->
                [d EXCEPT !.program_counter = d.program_counter + 1,
                          !.status = "Stopped"]
          [] d.instruction = "ComplementCarryFlag" -> complement_carry_flag(d)
          [] d.instruction = "Push(BC)" -> push_bc(d)
          [] d.instruction = "Pop(AF)" -> pop_af(d)
          [] d.instruction = "Call(C)" -> call(d, "C")
          [] d.instruction = "Call(NC)" -> call(d, "NC")
          [] d.instruction = "Call(None)" -> call(d, "None")

\* Cpu::step in which a step of a stopped or errored CPU sets it running again.
Cpu_step_wakes_stopped(c) ==
    IF c.status \in {"Errored", "Stopped"}
    THEN [c EXCEPT !.status = "Running"]
    ELSE LET c1 == IF c.ime_next
                   THEN [c EXCEPT !.ime = TRUE, !.ime_next = FALSE]
                   ELSE c
             dec == get_instruction(rom[c1.program_counter])
             c2 == IF c1.step_count = 0
                   THEN [c1 EXCEPT !.instruction = dec.instr,
                                   !.step_count = dec.cycles,
                                   !.program_counter = c1.program_counter + 1]
                   ELSE c1
         IN  IF c2.step_count > 1
             THEN [c2 EXCEPT !.step_count = c2.step_count - 1]
             ELSE process_instruction(c2)

\* Cpu::step on the CPU fields c, fetching through the bus from the cartridge.
Cpu_step(c) ==
    IF c.status \in {"Errored", "Stopped"}
    THEN c
    ELSE LET c1 == IF c.ime_next
                   THEN [c EXCEPT !.ime = TRUE, !.ime_next = FALSE]
                   ELSE c
             dec == get_instruction(rom[c1.program_counter])
             c2 == IF c1.step_count = 0
                   THEN [c1 EXCEPT !.instruction = dec.instr,
                                   !.step_count = dec.cycles,
                                   !.program_counter = c1.program_counter + 1]
                   ELSE c1
         IN  IF c2.step_count > 1
             THEN [c2 EXCEPT !.step_count = c2.step_count - 1]
             ELSE process_instruction(c2)

CpuFields ==
    [status |-> status, program_counter |-> program_counter,
     stack_pointer |-> stack_pointer, step_count |-> step_count,
     instruction |-> instruction, ime |-> ime, ime_next |-> ime_next,
     register |-> register, h_ram |-> h_ram]

(***************************************************************************)
(* The record of the operation performed last.                             *)
(***************************************************************************)
Did(op, addr, value, ret, irq) ==
    [op |-> op, addr |-> addr, value |-> value, ret |-> ret, irq |-> irq]

(***************************************************************************)
(* Operations.                                                             *)
(***************************************************************************)
\* MemoryBus::step_ppu(cycles): the PPU's interrupt goes back to the caller.
StepPpu(cycles) ==
    /\ ppu' = step(ppu, cycles).ppu
    /\ last' = Did("step_ppu", 0, 0, 0, step(ppu, cycles).irq)
    /\ UNCHANGED <<busVars, cpuVars, memVars, panicked, execVars>>

\* The fields of MemoryBus that a read depends on.
Bus ==
    [cart |-> cart, rom |-> rom, ppu |-> ppu, w_ram |-> w_ram,
     w_ram_bank |-> w_ram_bank, if_reg |-> if_reg, ie |-> ie, h_ram |-> h_ram]

\* MemoryBus::read(addr) on the bus b: the byte returned, or None where the
\* cartridge has no byte and the read panics.
MemoryBus_read(b, addr) ==
    CASE addr \in 0 .. 32767 \/ addr \in ADDR_CART_RAM .. 49151 ->
            Cart_read(b.cart, b.rom, addr)
      [] addr \in ADDR_VRAM .. 40959 -> Some(read_vram(b.ppu, addr))
      [] addr \in ADDR_WRAM .. 53247 -> Some(b.w_ram[0][addr - ADDR_WRAM])
      [] addr \in 53248 .. 57343 -> Some(b.w_ram[b.w_ram_bank][addr - 53248])
      [] addr \in ADDR_ECHO .. 61439 -> Some(b.w_ram[0][addr - ADDR_ECHO])
      [] addr \in 61440 .. 65023 -> Some(b.w_ram[b.w_ram_bank][addr - 61440])
      [] addr \in ADDR_OAM .. 65183 -> Some(read_oam(b.ppu, addr))
      [] addr \in ADDR_UNUSABLE .. 65279 -> Some(OPEN_BUS)
      [] addr \in ADDR_LCDC .. 65355 -> Some(read_register(b.ppu.registers, addr))
      [] addr = ADDR_IF -> Some(b.if_reg)
      [] addr \in ADDR_HRAM .. 65534 -> Some(b.h_ram[addr - ADDR_HRAM])
      [] addr = ADDR_IE -> Some(b.ie)

\* MemoryBus::write(addr, value) for the addresses modelled; a write to the
\* unusable area panics.
BusWrite(addr, value) ==
    /\ ~panicked
    /\ ppu' = CASE addr \in {ADDR_LCDC, ADDR_STAT, ADDR_LY, ADDR_LYC} ->
                      [ppu EXCEPT !.registers = write_register(ppu.registers, addr, value)]
                [] addr \in VramAddrs -> write_vram(ppu, addr, value)
                [] addr \in OamAddrs  -> write_oam(ppu, addr, value)
                [] OTHER              -> ppu
    /\ if_reg' = IF addr = ADDR_IF THEN value ELSE if_reg
    /\ ie' = IF addr = ADDR_IE THEN value ELSE ie
    /\ cart' = IF addr \in ADDR_CART_RAM .. 49151
               THEN Cart_write(cart, addr, value)
               ELSE cart
    /\ w_ram' = CASE addr \in ADDR_WRAM .. 53247 ->
                        [w_ram EXCEPT ![0][addr - ADDR_WRAM] = value]
                  [] addr \in 53248 .. 57343 ->
                        [w_ram EXCEPT ![w_ram_bank][addr - 53248] = value]
                  [] OTHER -> w_ram
    /\ w_ram_bank' = IF addr = ADDR_SVBK THEN value % 8 ELSE w_ram_bank
    /\ h_ram' = IF addr \in ADDR_HRAM .. 65534
                THEN [h_ram EXCEPT ![addr - ADDR_HRAM] = value]
                ELSE h_ram
    /\ panicked' = (addr \in ADDR_UNUSABLE .. 65279)
    /\ last' = Did("write", addr, value, 0, "None")
    /\ UNCHANGED <<cpuVars, register, scenarioVars>>

\* MemoryBus::read(addr).
BusRead(addr) ==
    /\ ~panicked
    /\ LET r == MemoryBus_read(Bus, addr)
       IN  /\ last' = Did("read", addr, 0, r.value, "None")
           /\ panicked' = ~r.some
    /\ UNCHANGED <<ppu, busVars, cpuVars, memVars, execVars, scenarioVars>>

\* Cart::write(addr, value), the mapper written directly by its owner.
CartWrite(addr, value) ==
    /\ ~panicked
    /\ cart' = Cart_write(cart, addr, value)
    /\ last' = Did("cart_write", addr, value, 0, "None")
    /\ UNCHANGED <<ppu, busVars, cpuVars, w_ram, w_ram_bank, panicked, execVars, scenarioVars>>

\* MemoryBus::request_interrupt(interrupt).
RequestInterrupt(i) ==
    /\ if_reg' = BitOr(if_reg, InterruptMask(i))
    /\ last' = Did("request_interrupt", 0, InterruptMask(i), 0, "None")
    /\ UNCHANGED <<ppu, ie, cpuVars, memVars, panicked, execVars, scenarioVars>>

\* MemoryBus::get_framebuffer().
GetFramebuffer ==
    /\ ppu' = get_framebuffer(ppu)
    /\ last' = Did("get_framebuffer", 0, 0, 0, "None")
    /\ UNCHANGED <<busVars, cpuVars, memVars, panicked, execVars, scenarioVars>>

\* Ppu::reset() through MemoryBus::get_ppu_mut().
PpuReset ==
    /\ ppu' = reset(ppu)
    /\ last' = Did("reset", 0, 0, 0, "None")
    /\ UNCHANGED <<busVars, cpuVars, memVars, panicked, execVars, scenarioVars>>

\* Whether this Cpu::step() fetches an opcode.
Fetches == status \notin {"Errored", "Stopped"} /\ step_count = 0

\* Cpu::step(); the fetch of an unassigned opcode panics in the decoder.
CpuStep ==
    /\ ~panicked
    /\ Fetches => program_counter \in DOMAIN rom
    /\ LET c == IF Fetches /\ get_instruction_panics(rom[program_counter])
                THEN IF ime_next
                     THEN [CpuFields EXCEPT !.ime = TRUE, !.ime_next = FALSE]
                     ELSE CpuFields
                ELSE Cpu_step(CpuFields)
       IN  /\ status' = c.status
           /\ program_counter' = c.program_counter
           /\ stack_pointer' = c.stack_pointer
           /\ step_count' = c.step_count
           /\ instruction' = c.instruction
           /\ ime' = c.ime
           /\ ime_next' = c.ime_next
           /\ register' = c.register
           /\ h_ram' = c.h_ram
    /\ panicked' = (Fetches /\ get_instruction_panics(rom[program_counter]))
    /\ last' = Did("cpu_step", program_counter, 0, 0, "None")
    /\ UNCHANGED <<ppu, busVars, rom, memVars, scenarioVars>>

\* Cpu::reset(): the CPU registers and flags, and the bus writes to the
\* registers that are modelled (LCDC, LYC, IE).
CpuReset ==
    /\ ~panicked
    /\ status' = "Running"
    /\ ime' = FALSE
    /\ ime_next' = FALSE
    /\ program_counter' = RESET_PC
    /\ stack_pointer' = RESET_SP
    /\ register' = Register_reset
    /\ ppu' = [ppu EXCEPT !.registers =
                    write_register(write_register(ppu.registers, ADDR_LCDC, 145),
                                   ADDR_LYC, 0)]
    /\ ie' = 0
    /\ last' = Did("cpu_reset", 0, 0, 0, "None")
    /\ UNCHANGED <<if_reg, step_count, instruction, rom, memVars, panicked, h_ram,
                   scenarioVars>>

\* Cpu::write(addr, value) to the boot ROM disable register or the high RAM.
CpuWrite(addr, value) ==
    /\ ~panicked
    /\ status' = Cpu_write(CpuFields, addr, value).status
    /\ h_ram' = Cpu_write(CpuFields, addr, value).h_ram
    /\ last' = Did("cpu_write", addr, value, 0, "None")
    /\ UNCHANGED <<ppu, busVars, program_counter, stack_pointer, step_count,
                   instruction, ime, ime_next, rom, memVars, panicked, register,
                   scenarioVars>>

\* A test harness assigning cpu.status directly (src/src/cpu/tests.rs).
SetStatus(s) ==
    /\ ~panicked
    /\ status # s
    /\ status' = s
    /\ last' = Did("set_status", 0, 0, 0, "None")
    /\ UNCHANGED <<ppu, busVars, program_counter, stack_pointer, step_count,
                   instruction, ime, ime_next, rom, memVars, panicked, execVars,
                   scenarioVars>>

(***************************************************************************)
(* Initial states: Cpu::new builds the bus and the PPU, then resets.       *)
(***************************************************************************)
InitWithCart(program, p0, did, c0) ==
    /\ ppu = p0
    /\ if_reg = 0
    /\ ie = 0
    /\ status = "Running"
    /\ program_counter = RESET_PC
    /\ stack_pointer = RESET_SP
    /\ step_count = 0
    /\ instruction = "Nop"
    /\ ime = FALSE
    /\ ime_next = FALSE
    /\ rom = program
    /\ cart = c0
    /\ w_ram = [bank \in 0 .. 7 |-> [o \in WramOffsets |-> 0]]
    /\ w_ram_bank = 1
    /\ panicked = FALSE
    /\ register = Register_reset
    /\ h_ram = [o \in HramOffsets |-> 0]
    /\ last = did
    /\ mcycles = 0
    /\ vblanks = 0
    /\ delivered = 0

\* Cart::new on a header of the given cartridge type, ROM-size and RAM-size codes.
Cart_new(mapper_type, rom_code, ram_code) ==
    create_mbc(mapper_type, get_rom_size(rom_code).size, get_ram_size(ram_code).size,
               get_rom_size(rom_code).banks, get_ram_size(ram_code).banks)

InitWith(program, p0, did) == InitWithCart(program, p0, did, Cart_new("None", 0, 0))

ZeroRom == [a \in ProgAddrs |-> OP_NOP]

Constructed == Did("new", 0, 0, 0, "None")

Init == InitWith(ZeroRom, Ppu_new, Constructed)

(***************************************************************************)
(* Spec: the PPU driven by a host through the bus, with register writes.   *)
(***************************************************************************)
StatChoices == {0, 71, 255}     \* 0x00, 0x47, 0xFF
LcdcChoices == {17, 145}        \* 0x11, 0x91
LycChoices == {1, 144}

Next ==
    \/ \E c \in CycleChoices : StepPpu(c) /\ UNCHANGED scenarioVars
    \/ \E v \in StatChoices : BusWrite(ADDR_STAT, v)
    \/ \E v \in LcdcChoices : BusWrite(ADDR_LCDC, v)
    \/ \E v \in LycChoices : BusWrite(ADDR_LYC, v)
    \/ GetFramebuffer
    \/ PpuReset

Spec == Init /\ [][Next]_vars

(***************************************************************************)
(* SpecMem: VRAM and OAM accesses through the bus while the PPU runs.      *)
(***************************************************************************)
MemCycles == {255}

NextMem ==
    \/ \E c \in MemCycles : StepPpu(c) /\ UNCHANGED scenarioVars
    \/ \E v \in LcdcChoices : BusWrite(ADDR_LCDC, v)
    \/ \E a \in VramAddrs \cup OamAddrs : \E v \in DataBytes : BusWrite(a, v)
    \/ \E a \in VramAddrs \cup OamAddrs : BusRead(a)

SpecMem == Init /\ [][NextMem]_vars

(***************************************************************************)
(* SpecCpu: the CPU stepping a program while the host advances the PPU     *)
(* and interrupts are requested.                                           *)
(***************************************************************************)
CpuIrqs == {"VBlank", "LCD"}
IeChoices == {2, 31}            \* 0x02, 0x1F
CpuStatChoices == {8}           \* 0x08, the HBlank interrupt enable
CpuCycles == {255}

InitCpu == \E program \in [ProgAddrs -> Opcodes] : InitWith(program, Ppu_new, Constructed)

NextCpu ==
    \/ CpuStep
    \/ \E i \in CpuIrqs : RequestInterrupt(i)
    \/ \E v \in IeChoices : BusWrite(ADDR_IE, v)
    \/ \E v \in CpuStatChoices : BusWrite(ADDR_STAT, v)
    \/ \E c \in CpuCycles :
          ppu.scanline < MaxLine /\ StepPpu(c) /\ UNCHANGED scenarioVars

SpecCpu == InitCpu /\ [][NextCpu]_vars

(***************************************************************************)
(* SpecVBlank: from reset with LCDC = 0x80, one machine cycle (4 dots) at  *)
(* a time up to the end of line 143.                                       *)
(***************************************************************************)
DOTS_PER_MCYCLE == 4
VBlankEntryCycles == VISIBLE_SCANLINES * (DOTS_PER_SCANLINE \div DOTS_PER_MCYCLE)

InitVBlank ==
    InitWith(ZeroRom,
             [Ppu_new EXCEPT !.registers = write_register(PpuRegisters_new, ADDR_LCDC, 128)],
             Did("write", ADDR_LCDC, 128, 0, "None"))

MachineCycle ==
    /\ mcycles < VBlankEntryCycles
    /\ StepPpu(DOTS_PER_MCYCLE)
    /\ mcycles' = mcycles + 1
    /\ vblanks' = vblanks + (IF step(ppu, DOTS_PER_MCYCLE).irq = "VBlank" THEN 1 ELSE 0)
    /\ UNCHANGED delivered

NextVBlank == MachineCycle

SpecVBlank == InitVBlank /\ [][NextVBlank]_vars

(***************************************************************************)
(* SpecBus: reads and writes through the bus over the cartridge, work RAM, *)
(* echo RAM and the unusable area, and mapper writes through Cart::write,  *)
(* on a 32 KiB NoMBC cartridge or a 128 KiB MBC1 cartridge with 8 KiB RAM. *)
(* Each ROM bank starts with a byte that names the bank.                   *)
(***************************************************************************)
CartKinds ==
    {[mapper |-> "None", rom_code |-> 0, ram_code |-> 0],
     [mapper |-> "MBC1", rom_code |-> 2, ram_code |-> 2]}

RomImage(rom_size) == [o \in RomOffsets(rom_size) |-> 16 + (o \div ROM_BANK_SIZE)]

\* Mapper control writes <<addr, value>>: RAM enable at 0x0000, ROM bank at
\* 0x2100, RAM bank at 0x4000, banking mode at 0x6000.
CtrlWrites ==
    ({0} \X {0, 10, 15}) \cup ({8448} \X {0, 3, 32})
        \cup ({16384} \X {0, 1}) \cup ({24576} \X {0, 1})
BusCtrlWrites == {<<0, 10>>, <<8448, 3>>}
BusBytes == {66}                          \* 0x42
RomReadAddrs == {0, 16384}                \* 0x0000, 0x4000
RamAddrs == {ADDR_CART_RAM, ADDR_WRAM, ADDR_WRAM + 4096, ADDR_ECHO, ADDR_ECHO + 4096}
UnusableAddrs == {ADDR_UNUSABLE}
WramBankChoices == {1, 2}

InitBus ==
    \E k \in CartKinds :
        InitWithCart(RomImage(get_rom_size(k.rom_code).size), Ppu_new, Constructed,
                     Cart_new(k.mapper, k.rom_code, k.ram_code))

NextBus ==
    \/ \E w \in CtrlWrites : CartWrite(w[1], w[2])
    \/ \E w \in BusCtrlWrites : BusWrite(w[1], w[2])
    \/ \E a \in RamAddrs \cup UnusableAddrs : \E v \in BusBytes : BusWrite(a, v)
    \/ \E v \in WramBankChoices : BusWrite(ADDR_SVBK, v)
    \/ \E a \in RomReadAddrs \cup RamAddrs \cup UnusableAddrs : BusRead(a)

SpecBus == InitBus /\ [][NextBus]_vars

(***************************************************************************)
(* SpecFault: the CPU stepping programs that may hold unassigned opcodes,  *)
(* with the status also set from outside.                                  *)
(***************************************************************************)
ForcedStatuses == {"Errored", "Stopped"}

InitFault ==
    \E program \in [ProgAddrs -> Opcodes \cup UnassignedOpcodes] :
        InitWith(program, Ppu_new, Constructed)

NextFault ==
    \/ CpuStep
    \/ \E s \in ForcedStatuses : SetStatus(s)

SpecFault == InitFault /\ [][NextFault]_vars

(***************************************************************************)
(* SpecExec: the CPU stepping programs that use the stack and the flags    *)
(* (PUSH BC / POP AF, CALL with the carry set, CCF then CALL), reset       *)
(* between instructions, while the host advances the PPU.                  *)
(***************************************************************************)
ExecPrograms ==
    {<<OP_PUSH_BC, OP_POP_AF, OP_CCF, OP_NOP, OP_NOP, OP_NOP>>,
     <<OP_CALL, 5, 1, OP_NOP, OP_NOP, OP_HALT>>,
     <<OP_CCF, OP_CALL, 0, 1, OP_HALT, OP_NOP>>,
     <<OP_CALL_NC, 5, 1, OP_NOP, OP_NOP, OP_HALT>>,
     <<OP_CCF, OP_CALL_NC, 5, 1, OP_NOP, OP_HALT>>}

ProgramAt(bytes) ==
    [a \in RESET_PC .. (RESET_PC + Len(bytes) - 1) |-> bytes[a - RESET_PC + 1]]

ExecCycles == {255}
BootOffChoices == {1}
ExecStatChoices == {8}

InitExec == \E bytes \in ExecPrograms : InitWith(ProgramAt(bytes), Ppu_new, Constructed)

NextExec ==
    \/ CpuStep
    \/ step_count = 0 /\ CpuReset
    \/ PpuReset
    \/ \E v \in ExecStatChoices : BusWrite(ADDR_STAT, v)
    \/ \E v \in BootOffChoices : CpuWrite(ADDR_BOOT_OFF, v)
    \/ \E c \in ExecCycles :
          ppu.scanline < MaxLine /\ StepPpu(c) /\ UNCHANGED scenarioVars

SpecExec == InitExec /\ [][NextExec]_vars

(***************************************************************************)
(* Properties.                                                             *)
(***************************************************************************)
LcdOn == is_lcd_enabled(ppu.registers)
ProbeCycles == {0, 1, 4, 79, 80, 172, 204, 255}   \* step sizes tried on every state

\* C1: in every reachable PPU state, from construction or reset on, bits
\* 1..0 of STAT equal the numeric code of the PPU's current mode.
C1_StatBitsEqualMode == ppu.registers.stat % 4 = ModeCode(ppu.mode)

\* C2: after every PPU step ly (the scanline and the LY register) is in
\* 0..153 and the mode is VBlank exactly when ly is in 144..153.
C2_LineAndVBlank ==
    /\ ppu.scanline \in 0 .. (SCANLINES_PER_FRAME - 1)
    /\ ppu.registers.ly = ppu.scanline
    /\ (ppu.mode = "VBlank") <=>
            (ppu.scanline \in VISIBLE_SCANLINES .. (SCANLINES_PER_FRAME - 1))

\* C2 witness: a step has taken the PPU to the last VBlank line.
C2_Witness ==
    /\ last.op = "step_ppu"
    /\ ppu.mode = "VBlank"
    /\ ppu.scanline = SCANLINES_PER_FRAME - 1

\* C3: a CPU step that starts with IME = 1 and IE & IF # 0 services the
\* lowest-numbered pending interrupt: it clears that bit of IF, clears IME,
\* pushes PC (SP goes down by 2) and sets PC to the bit's vector 0x40 + 8 * bit.
LowestPending(m) == CHOOSE b \in 0 .. 4 : Bit(m, b) = 1 /\ \A k \in 0 .. (b - 1) : Bit(m, k) = 0

InterruptVector(b) == 64 + 8 * b

C3_StepServicesInterrupt ==
    [][(/\ last'.op = "cpu_step"
        /\ status \in {"Running", "Halted"}
        /\ ime
        /\ BitAnd(BitAnd(ie, if_reg), 31) # 0)
       => LET b == LowestPending(BitAnd(ie, if_reg))
          IN  /\ program_counter' = InterruptVector(b)
              /\ ~ime'
              /\ if_reg' = if_reg - Pow2(b)
              /\ stack_pointer' = stack_pointer - 2]_vars

\* C4: whenever a PPU advance through the bus raises an interrupt, the
\* corresponding bit of IF is set when the advance returns.
C4_PpuInterruptLatched ==
    (last.op = "step_ppu" /\ last.irq # "None")
        => Bit(if_reg, InterruptBit(last.irq)) = 1

\* C5: the CPU step that executes an instruction advances the PPU by that
\* instruction's declared machine-cycle cost times 4 dots (handed over in
\* one call or one machine cycle at a time).
RECURSIVE Advance(_, _)
Advance(p, n) == IF n = 0 THEN p ELSE Advance(step(p, DOTS_PER_MCYCLE).ppu, n - 1)

DeclaredCost(instr) ==
    get_instruction(CHOOSE op \in Opcodes : get_instruction(op).instr = instr).cycles

C5_StepAdvancesPpu ==
    [][(/\ last'.op = "cpu_step"
        /\ status \in {"Running", "Halted"}
        /\ step_count' = 0)
       => LET cost == DeclaredCost(instruction')
          IN  ppu' \in {step(ppu, DOTS_PER_MCYCLE * cost).ppu, Advance(ppu, cost)}]_vars

\* C6: get_framebuffer() leaves is_frame_ready() false, and frame_ready goes
\* from false to true only in the HBlank-to-VBlank transition, whatever steps
\* and register writes come in between.
C6_FrameReadyUntilVBlankEntry ==
    /\ [](last.op = "get_framebuffer" => ~is_frame_ready(ppu))
    /\ [][(~is_frame_ready(ppu) /\ is_frame_ready(ppu'))
            => (ppu.mode = "HBlank" /\ ppu'.mode = "VBlank")]_vars

\* C6 witness: the frame was taken during VBlank and the PPU has been stepped
\* further into VBlank since, the latch still clear.
C6_Witness ==
    /\ last.op = "step_ppu"
    /\ ppu.mode = "VBlank"
    /\ ppu.scanline > VISIBLE_SCANLINES
    /\ ~is_frame_ready(ppu)

\* C7: from reset with LCDC = 0x80, after 16,416 machine cycles of 4 dots the
\* VBlank interrupt has been raised exactly once (and not before), frame_ready
\* is set, ly = 144 and the mode is VBlank.
C7_VBlankEntry ==
    /\ mcycles < VBlankEntryCycles => (vblanks = 0 /\ ~is_frame_ready(ppu))
    /\ mcycles = VBlankEntryCycles =>
          /\ vblanks = 1
          /\ is_frame_ready(ppu)
          /\ ppu.scanline = VISIBLE_SCANLINES
          /\ ppu.registers.ly = VISIBLE_SCANLINES
          /\ ppu.mode = "VBlank"
          /\ ModeCode(ppu.mode) = 1

\* C7 witness: all 16,416 machine cycles have been delivered.
C7_Witness == mcycles = VBlankEntryCycles /\ last.op = "step_ppu"

\* C8: with the LCD enabled, a VRAM read during Drawing returns 0xFF and a
\* VRAM write during Drawing changes nothing; an OAM read during OamScan or
\* Drawing returns 0xFF and an OAM write then changes nothing; in the other
\* modes a read returns the stored byte and a write stores its value.
VramBlocked(p) == p.mode = "Drawing"
OamBlocked(p) == p.mode \in {"OamScan", "Drawing"}

C8_AccessGating ==
    /\ []((last.op = "read" /\ last.addr \in VramAddrs /\ LcdOn)
            => last.ret = IF VramBlocked(ppu) THEN OPEN_BUS ELSE ppu.vram[last.addr])
    /\ []((last.op = "read" /\ last.addr \in OamAddrs /\ LcdOn)
            => last.ret = IF OamBlocked(ppu) THEN OPEN_BUS ELSE ppu.oam[last.addr])
    /\ [][(last'.op = "write" /\ last'.addr \in VramAddrs /\ LcdOn)
            => /\ ppu'.oam = ppu.oam
               /\ ppu'.vram = IF VramBlocked(ppu) THEN ppu.vram
                              ELSE [ppu.vram EXCEPT ![last'.addr] = last'.value]]_vars
    /\ [][(last'.op = "write" /\ last'.addr \in OamAddrs /\ LcdOn)
            => /\ ppu'.vram = ppu.vram
               /\ ppu'.oam = IF OamBlocked(ppu) THEN ppu.oam
                             ELSE [ppu.oam EXCEPT ![last'.addr] = last'.value]]_vars

\* C8 witness: with the LCD on, a VRAM read in Drawing came back as 0xFF
\* although a written byte is stored there.
C8_Witness ==
    /\ last.op = "read"
    /\ last.addr \in VramAddrs
    /\ LcdOn
    /\ ppu.mode = "Drawing"
    /\ last.ret = OPEN_BUS
    /\ ppu.vram[last.addr] \in DataBytes

\* C9: while LCDC bit 7 is 0, step(n) for any n leaves ly, mode, the dot
\* counter and frame_ready unchanged and returns no interrupt.
C9_DisabledStepIsInert ==
    /\ [](~LcdOn => \A n \in ProbeCycles :
              LET r == step(ppu, n)
              IN  /\ r.irq = "None"
                  /\ r.ppu.scanline = ppu.scanline
                  /\ r.ppu.registers.ly = ppu.registers.ly
                  /\ r.ppu.mode = ppu.mode
                  /\ r.ppu.dots = ppu.dots
                  /\ r.ppu.frame_ready = ppu.frame_ready)
    /\ [][(last'.op = "step_ppu" /\ ~LcdOn) => (ppu' = ppu /\ last'.irq = "None")]_vars

\* C9 witness: a step was taken with the LCD off in the middle of a frame,
\* with dots already counted in the current mode.
C9_Witness ==
    /\ last.op = "step_ppu"
    /\ ~LcdOn
    /\ ppu.dots > 0
    /\ ppu.scanline > 0

\* C10: while LCDC bit 7 is 0 every VRAM and OAM read returns the stored byte
\* and every write takes effect, whatever mode the PPU stopped in.
C10_NoGatingWhenLcdOff ==
    /\ []((last.op = "read" /\ last.addr \in VramAddrs /\ ~LcdOn)
            => last.ret = ppu.vram[last.addr])
    /\ []((last.op = "read" /\ last.addr \in OamAddrs /\ ~LcdOn)
            => last.ret = ppu.oam[last.addr])
    /\ [][(last'.op = "write" /\ last'.addr \in VramAddrs /\ ~LcdOn)
            => ppu'.vram[last'.addr] = last'.value]_vars
    /\ [][(last'.op = "write" /\ last'.addr \in OamAddrs /\ ~LcdOn)
            => ppu'.oam[last'.addr] = last'.value]_vars

\* C11: every PPU step that changes ly (the end of an HBlank, the end of a
\* VBlank line, the wrap from 153 to 0) leaves STAT bit 2 equal to
\* (ly = LYC), whatever STAT interrupt-enable bits are set.
C11_LycFlagTracksLy ==
    [][(last'.op = "step_ppu" /\ ppu'.registers.ly # ppu.registers.ly)
        => (get_lyc_flag(ppu'.registers)
                <=> ppu'.registers.ly = ppu'.registers.lyc)]_vars

\* C12: a PPU step that enters a mode raises the LCD interrupt when the
\* matching STAT enable bit is set: bit 3 entering HBlank, bit 4 entering
\* VBlank (together with the VBlank interrupt), bit 5 entering OamScan from
\* HBlank or from the last VBlank line.
Raised(irq) == IF irq = "None" THEN {} ELSE {irq}

Enters(m) == ppu.mode # m /\ ppu'.mode = m

C12_ModeEntryRaisesLcd ==
    [][last'.op = "step_ppu"
        => /\ (Enters("HBlank") /\ is_hblank_interrupt_enabled(ppu.registers))
                => "LCD" \in Raised(last'.irq)
           /\ Enters("VBlank") => "VBlank" \in Raised(last'.irq)
           /\ (Enters("VBlank") /\ is_vblank_interrupt_enabled(ppu.registers))
                => "LCD" \in Raised(last'.irq)
           /\ (Enters("OamScan") /\ is_oam_interrupt_enabled(ppu.registers))
                => "LCD" \in Raised(last'.irq)]_vars

\* C13: a bus write to an address in 0x0000-0x7FFF is delivered to the
\* cartridge mapper; on the 8-bank (128 KiB) MBC1 cartridge, after the bus
\* write of 3 to 0x2100 a bus read of 0x4000 returns the ROM byte at offset
\* 0xC000.
C13_BusWriteReachesMapper ==
    /\ [][(last'.op = "write" /\ last'.addr \in 0 .. 32767)
            => cart' = Cart_write(cart, last'.addr, last'.value)]_vars
    /\ [][(/\ last'.op = "write"
           /\ last'.addr = 8448
           /\ last'.value = 3
           /\ cart.mapper = "MBC1"
           /\ cart.rom_banks = 8)
            => MemoryBus_read(Bus', ROM_BANK_SIZE) = Some(rom[3 * ROM_BANK_SIZE])]_vars

\* C14: after a write of v to an address in 0x0000-0x1FFF of an MBC1
\* cartridge, external RAM is enabled exactly when v & 0x0F = 0x0A.
C14_RamEnableLowNibble ==
    [][(last'.op = "cart_write" /\ last'.addr \in 0 .. 8191 /\ cart.mapper = "MBC1")
        => (cart'.ram_enabled <=> last'.value % 16 = 10)]_vars

\* C15: a write of 0 to 0x2000-0x3FFF of an MBC1 cartridge stores 1, and from
\* construction on, after any control writes, the 5-bit ROM-bank register is
\* never 0.
C15_RomBankNeverZero ==
    /\ [](cart.mapper = "MBC1" => cart.rom_bank \in 1 .. 31)
    /\ [][(/\ last'.op = "cart_write"
           /\ last'.addr \in 8192 .. 16383
           /\ last'.value = 0
           /\ cart.mapper = "MBC1")
            => cart'.rom_bank = 1]_vars

\* C15 witness: 0 was written to the ROM-bank register of the MBC1 cartridge
\* while the upper bank bits and the RAM banking mode were in use.
C15_Witness ==
    /\ last.op = "cart_write"
    /\ last.addr \in 8192 .. 16383
    /\ last.value = 0
    /\ cart.mapper = "MBC1"
    /\ cart.rom_bank = 1
    /\ cart.ram_bank = 1
    /\ cart.mode = "Ram"

\* C16: a bus write to 0xFEA0-0xFEFF completes without failing and changes
\* nothing, and every read of that range returns 0xFF.
C16_UnusableWriteDropped ==
    /\ [][(last'.op = "write" /\ last'.addr \in ADDR_UNUSABLE .. 65279)
            => (~panicked' /\ Bus' = Bus)]_vars
    /\ []((last.op = "read" /\ last.addr \in ADDR_UNUSABLE .. 65279)
            => (~panicked /\ last.ret = OPEN_BUS))

\* C17: with a NoMBC cartridge a bus read of an address in 0xA000-0xBFFF
\* returns 0xFF and does not fail.
C17_NoMbcRamReadsOpenBus ==
    (last.op = "read" /\ last.addr \in ADDR_CART_RAM .. 49151 /\ cart.mapper = "None")
        => (~panicked /\ last.ret = OPEN_BUS)

\* C18: a bus write of v to the echo address 0xE000 + k (k < 0x1E00) is
\* mirrored into work RAM: a read of 0xC000 + k and a read of 0xE000 + k
\* then return v.
C18_EchoWriteMirrored ==
    [][(last'.op = "write" /\ last'.addr \in ADDR_ECHO .. 65023)
        => LET k == last'.addr - ADDR_ECHO
           IN  /\ MemoryBus_read(Bus', ADDR_WRAM + k) = Some(last'.value)
               /\ MemoryBus_read(Bus', ADDR_ECHO + k) = Some(last'.value)]_vars

\* C19: while the status is Stopped or Errored a CPU step changes nothing:
\* PC, SP, IME, ime_next, the pending-instruction counter, the instruction,
\* memory and the PPU are unchanged and the status stays what it was, step
\* after step.
C19_StoppedStepIsNoOp ==
    [][(last'.op = "cpu_step" /\ status \in {"Stopped", "Errored"})
        => /\ status' = status
           /\ ~panicked'
           /\ UNCHANGED <<program_counter, stack_pointer, step_count, instruction,
                          ime, ime_next, rom, ppu, busVars, memVars, execVars>>]_vars

\* C19 witness: a STOP at 0x0100 has stopped the CPU behind its two bytes,
\* and a further step has been taken in that state.
C19_Witness ==
    /\ last.op = "cpu_step"
    /\ status = "Stopped"
    /\ rom[RESET_PC] = OP_STOP
    /\ program_counter = RESET_PC + 2
    /\ last.addr = program_counter

\* C20: a CPU step that fetches an unassigned opcode (0xD3, 0xDB, 0xDD, 0xE3,
\* 0xE4, 0xEB, 0xEC, 0xED, 0xF4, 0xFC, 0xFD) sets the status to Errored and
\* does not abort the emulator.
C20_UnassignedOpcodeErrors ==
    [][(/\ last'.op = "cpu_step"
        /\ Fetches
        /\ rom[program_counter] \in UnassignedOpcodes)
        => (status' = "Errored" /\ ~panicked')]_vars

\* Whether the CPU step just taken finished executing instruction i.
Executed(i) ==
    /\ last'.op = "cpu_step"
    /\ status \notin {"Errored", "Stopped"}
    /\ ~panicked'
    /\ step_count' = 0
    /\ instruction' = i

\* C21: EI takes effect one instruction late: the step that executes EI
\* leaves IME as it was and arms the ime_next latch, so IME is still 0 while
\* the following instruction executes; the step that executes DI clears IME
\* at once.
C21_EiDelayedDiImmediate ==
    /\ [][Executed("EnableInterrupts") => (ime' = ime /\ ime_next')]_vars
    /\ [][Executed("DisableInterrupts") => ~ime']_vars

\* C22: the step that executes HALT leaves the status Halted, and a step of
\* a halted CPU with IE & IF # 0 sets the status to Running, whatever IME is.
C22_HaltResumesOnPending ==
    /\ [][Executed("Halt") => status' = "Halted"]_vars
    /\ [][(/\ last'.op = "cpu_step"
           /\ status = "Halted"
           /\ BitAnd(BitAnd(ie, if_reg), 31) # 0)
            => status' = "Running"]_vars

\* C23: F & 0x0F = 0 after every CPU operation, POP AF with any stack
\* contents included, and after any direct write to F or to AF.
FlagProbes == {0, 15, 19, 176, 255}

C23_FlagLowNibbleZero ==
    /\ get_f(register) % 16 = 0
    /\ \A v \in FlagProbes :
          /\ get_f(set_f(register, v)) % 16 = 0
          /\ get_f(set_af(register, 256 * v + v)) % 16 = 0

\* C24: opcode 0xCD is an unconditional 3-byte call of 6 machine cycles:
\* six steps after the CPU is about to fetch it, whatever the flags, PC is the
\* 16-bit operand, SP is 2 lower and the stack holds the address of the
\* following instruction.
RECURSIVE Steps(_, _)
Steps(c, n) == IF n = 0 THEN c ELSE Steps(Cpu_step(c), n - 1)

CALL_CYCLES == 6

C24_CallUnconditional ==
    (~panicked /\ Fetches /\ program_counter \in DOMAIN rom /\ rom[program_counter] = OP_CALL)
        => LET d == Steps(CpuFields, CALL_CYCLES)
               target == rom[program_counter + 1] + 256 * rom[program_counter + 2]
               return == program_counter + 3
           IN  /\ d.program_counter = target
               /\ d.step_count = 0
               /\ d.stack_pointer = stack_pointer - 2
               /\ Cpu_read(d, stack_pointer - 1) = return \div 256
               /\ Cpu_read(d, stack_pointer - 2) = return % 256

\* C25: a reset after any execution returns the CPU registers (AF=0x01B0,
\* BC=0x0013, DE=0x00D8, HL=0x014D, SP=0xFFFE, PC=0x0100, IME=0) and the PPU
\* state (mode OamScan, dots 0, ly 0, frame_ready clear, LCD registers) to
\* their values right after construction.
C25_ResetRestoresCpuAndPpu ==
    [][last'.op = "cpu_reset"
        => /\ register' = Register_reset
           /\ stack_pointer' = RESET_SP
           /\ program_counter' = RESET_PC
           /\ ~ime'
           /\ ppu'.mode = Ppu_new.mode
           /\ ppu'.dots = Ppu_new.dots
           /\ ppu'.scanline = Ppu_new.scanline
           /\ ppu'.frame_ready = Ppu_new.frame_ready
           /\ ppu'.registers = Ppu_new.registers]_vars

(***************************************************************************)
(* Cartridge construction from an image (src/src/memory/cart): the header  *)
(* checks of Cart::new in the order the code makes them.  An image is a    *)
(* function from the header addresses 0x0104..0x014D to bytes; every other *)
(* byte of the 32 KiB buffer is 0 and is read by none of the checks.       *)
(***************************************************************************)
ADDR_LOGO == 260                \* 0x0104
ADDR_TITLE == 308               \* 0x0134
ADDR_CART_TYPE == 327           \* 0x0147
ADDR_ROM_SIZE == 328            \* 0x0148
ADDR_RAM_SIZE == 329            \* 0x0149
ADDR_VERSION == 332             \* 0x014C
ADDR_HEADER_CHECKSUM == 333     \* 0x014D
HeaderAddrs == ADDR_LOGO .. ADDR_HEADER_CHECKSUM

NINTENDO_LOGO ==
    <<206, 237, 102, 102, 204, 13, 0, 11, 3, 115, 0, 131, 0, 12, 0, 13,
      0, 8, 17, 31, 136, 137, 0, 14, 220, 204, 110, 230, 221, 221, 217, 153,
      187, 187, 103, 99, 110, 14, 236, 204, 221, 220, 153, 159, 187, 185, 51, 62>>

Ok(v) == [ok |-> TRUE, value |-> v]
Err(e) == [ok |-> FALSE, error |-> e]

InvalidRomSize(code) == [kind |-> "InvalidRomSize", code |-> code]
InvalidRamSize(code) == [kind |-> "InvalidRamSize", code |-> code]
InvalidCartType(code) == [kind |-> "InvalidCartType", code |-> code]
InvalidLogo == [kind |-> "InvalidLogo"]
HeaderCheckSumFailure(computed, expected) ==
    [kind |-> "HeaderCheckSumFailure", computed_checksum |-> computed,
     expected_checksum |-> expected]

\* The codes get_rom_size and get_ram_size accept.
RomSizeCodes == 0 .. 8
RamSizeCodes == {0, 2, 3, 4, 5}

validate_nintendo_logo(data) ==
    IF \E i \in 1 .. Len(NINTENDO_LOGO) : data[ADDR_LOGO + i - 1] # NINTENDO_LOGO[i]
    THEN Err(InvalidLogo)
    ELSE Ok(0)

\* The loop of validate_header_checksum from address a on with accumulator h:
\* two wrapping 8-bit subtractions per byte.
RECURSIVE checksum_from(_, _, _)
checksum_from(data, a, h) ==
    IF a > ADDR_VERSION THEN h
    ELSE checksum_from(data, a + 1, ((((h + 256 - data[a]) % 256) + 255) % 256))

\* The same loop without the subtraction of 1.
validate_header_checksum_sum_only(data) ==
    LET RECURSIVE sum_from(_, _)
        sum_from(a, h) ==
            IF a > ADDR_VERSION THEN h
            ELSE sum_from(a + 1, (h + 256 - data[a]) % 256)
        header_checksum == sum_from(ADDR_TITLE, 0)
        expected_header_checksum == data[ADDR_HEADER_CHECKSUM]
    IN  IF header_checksum # expected_header_checksum
        THEN Err(HeaderCheckSumFailure(header_checksum, expected_header_checksum))
        ELSE Ok(0)

validate_header_checksum(data) ==
    LET header_checksum == checksum_from(data, ADDR_TITLE, 0)
        expected_header_checksum == data[ADDR_HEADER_CHECKSUM]
    IN  IF header_checksum # expected_header_checksum
        THEN Err(HeaderCheckSumFailure(header_checksum, expected_header_checksum))
        ELSE Ok(0)

\* CartType::new, for the cartridge types the images below carry.
CartType_new(code) ==
    CASE code = 0 -> Ok("None")
      [] code = 1 -> Ok("MBC1")
      [] OTHER -> Err(InvalidCartType(code))

\* Cart::new(data): size codes first, then the checksum, then the logo, then
\* the cartridge type and the mapper.
Cart_new_from(data) ==
    IF data[ADDR_ROM_SIZE] \notin RomSizeCodes
    THEN Err(InvalidRomSize(data[ADDR_ROM_SIZE]))
    ELSE IF data[ADDR_RAM_SIZE] \notin RamSizeCodes
    THEN Err(InvalidRamSize(data[ADDR_RAM_SIZE]))
    ELSE IF ~validate_header_checksum(data).ok
    THEN validate_header_checksum(data)
    ELSE IF ~validate_nintendo_logo(data).ok
    THEN validate_nintendo_logo(data)
    ELSE IF ~CartType_new(data[ADDR_CART_TYPE]).ok
    THEN CartType_new(data[ADDR_CART_TYPE])
    ELSE Ok(Cart_new(CartType_new(data[ADDR_CART_TYPE]).value,
                     data[ADDR_ROM_SIZE], data[ADDR_RAM_SIZE]))

\* Cart::new on the image at hand.
CartNew ==
    /\ last.op # "cart_new"
    /\ cart' = Cart_new_from(rom)
    /\ last' = Did("cart_new", 0, 0, 0, "None")
    /\ UNCHANGED <<ppu, busVars, cpuVars, rom, w_ram, w_ram_bank, panicked, execVars,
                   scenarioVars>>

(***************************************************************************)
(* SpecCart: Cart::new applied to 32 KiB images that differ in the logo,   *)
(* the first title byte, the cartridge type, the size codes, the version   *)
(* and the checksum byte.                                                  *)
(***************************************************************************)
LogoChoices ==
    {NINTENDO_LOGO, [NINTENDO_LOGO EXCEPT ![48] = 63], [i \in 1 .. 48 |-> 0]}
TitleChoices == {0, 65, 255}
CartTypeChoices == {0, 1}
RomCodeChoices == {0, 1, 9}
RamCodeChoices == {0, 1, 2}
VersionChoices == {0, 200}
ChecksumChoices == 0 .. 255

Image(logo, title, type, rom_code, ram_code, version, checksum) ==
    [a \in HeaderAddrs |->
        CASE a < ADDR_TITLE -> logo[a - ADDR_LOGO + 1]
          [] a = ADDR_TITLE -> title
          [] a = ADDR_CART_TYPE -> type
          [] a = ADDR_ROM_SIZE -> rom_code
          [] a = ADDR_RAM_SIZE -> ram_code
          [] a = ADDR_VERSION -> version
          [] a = ADDR_HEADER_CHECKSUM -> checksum
          [] OTHER -> 0]

InitCart ==
    \E logo \in LogoChoices, title \in TitleChoices, type \in CartTypeChoices,
       rom_code \in RomCodeChoices, ram_code \in RamCodeChoices,
       version \in VersionChoices, checksum \in ChecksumChoices :
        InitWithCart(Image(logo, title, type, rom_code, ram_code, version, checksum),
                     Ppu_new, Constructed, None)

NextCart == CartNew

SpecCart == InitCart /\ [][NextCart]_vars

\* The header bytes 0x0134..=0x014C of the image, summed.
RECURSIVE HeaderSum(_, _)
HeaderSum(data, a) == IF a > ADDR_VERSION THEN 0 ELSE data[a] + HeaderSum(data, a + 1)

\* h = -1 - b accumulated over the 25 bytes, modulo 256.
ExpectedChecksum(data) == (256 * 26 - 25 - HeaderSum(data, ADDR_TITLE)) % 256

ZeroHeader(data) ==
    /\ \A a \in ADDR_TITLE .. ADDR_VERSION : data[a] = 0
    /\ \A i \in 1 .. 48 : data[ADDR_LOGO + i - 1] = NINTENDO_LOGO[i]

SCREEN_WIDTH == 160
ScreenXs == 0 .. (SCREEN_WIDTH - 1)
OAM_SPRITES == 40
MAX_LINE_SPRITES == 10
TILE_MAP_0 == 6144              \* 0x1800
TILE_MAP_1 == 7168              \* 0x1C00
SIGNED_TILE_BASE == 4096        \* 0x1000

VramAt(p, offset) ==
    IF (ADDR_VRAM + offset) \in DOMAIN p.vram THEN p.vram[ADDR_VRAM + offset] ELSE 0

OamAt(p, offset) ==
    IF (ADDR_OAM + offset) \in DOMAIN p.oam THEN p.oam[ADDR_OAM + offset] ELSE 0

sprite_size(r) == Bit(r.lcdc, 2) = 1
is_sprites_enabled(r) == Bit(r.lcdc, 1) = 1
is_bg_window_enabled(r) == Bit(r.lcdc, 0) = 1
is_window_enabled(r) == Bit(r.lcdc, 5) = 1
bg_window_tile_data_area(r) == Bit(r.lcdc, 4) = 1
bg_tile_map_area(r) == Bit(r.lcdc, 3) = 1
window_tile_map_area(r) == Bit(r.lcdc, 6) = 1

get_bg_color(r, color_id) == (r.bgp \div Pow2(color_id * 2)) % 4

get_sprite_color(r, palette, color_id) ==
    ((IF palette = 0 THEN r.obp0 ELSE r.obp1) \div Pow2(color_id * 2)) % 4

\* ColorConverter::gb_color_to_rgb and the alpha byte copy_line_to_framebuffer adds.
gb_color_to_rgba(color_index) ==
    CASE color_index % 4 = 0 -> <<155, 188, 15, 255>>
      [] color_index % 4 = 1 -> <<139, 172, 15, 255>>
      [] color_index % 4 = 2 -> <<48, 98, 48, 255>>
      [] color_index % 4 = 3 -> <<15, 56, 15, 255>>

\* Sprite::from_oam on the four bytes of the sprite with the given index.
Sprite_from_oam(p, sprite_index) ==
    [y |-> OamAt(p, sprite_index * 4), x |-> OamAt(p, sprite_index * 4 + 1),
     tile_index |-> OamAt(p, sprite_index * 4 + 2),
     attributes |-> OamAt(p, sprite_index * 4 + 3)]

screen_y(sprite) == sprite.y - 16

\* Sprite::screen_x without the offset of 8.
screen_x_unshifted(sprite) == sprite.x

screen_x(sprite) == sprite.x - 8
has_priority(sprite) == Bit(sprite.attributes, 7) = 0
is_y_flipped(sprite) == Bit(sprite.attributes, 6) = 1
is_x_flipped(sprite) == Bit(sprite.attributes, 5) = 1
palette(sprite) == Bit(sprite.attributes, 4)

is_on_line(sprite, line, sprite_height) ==
    line >= screen_y(sprite) /\ line < screen_y(sprite) + sprite_height

\* The stable sort_by_key(|sprite| sprite.x): s goes behind every sprite whose
\* x is not larger.
RECURSIVE InsertByX(_, _)
InsertByX(sorted, s) ==
    IF sorted = <<>> THEN <<s>>
    ELSE IF s.x < Head(sorted).x THEN <<s>> \o sorted
    ELSE <<Head(sorted)>> \o InsertByX(Tail(sorted), s)

RECURSIVE SortByX(_)
SortByX(sprites) ==
    IF sprites = <<>> THEN <<>>
    ELSE InsertByX(SortByX(SubSeq(sprites, 1, Len(sprites) - 1)), sprites[Len(sprites)])

\* The OAM loop of scan_sprites_for_line from sprite_index on.
RECURSIVE ScanFrom(_, _, _, _, _)
ScanFrom(p, line, sprite_height, sprite_index, found) ==
    IF sprite_index >= OAM_SPRITES \/ Len(found) >= MAX_LINE_SPRITES THEN found
    ELSE ScanFrom(p, line, sprite_height, sprite_index + 1,
                  IF is_on_line(Sprite_from_oam(p, sprite_index), line, sprite_height)
                  THEN Append(found, Sprite_from_oam(p, sprite_index))
                  ELSE found)

scan_sprites_for_line(p, line, sprite_height) ==
    [p EXCEPT !.line_sprites = SortByX(ScanFrom(p, line, sprite_height, 0, <<>>))]

\* The color id of a pixel of the tile whose data start at tile_addr.
TilePixel(p, tile_addr, pixel_x, pixel_y) ==
    Bit(VramAt(p, tile_addr + pixel_y * 2), 7 - pixel_x)
        + 2 * Bit(VramAt(p, tile_addr + pixel_y * 2 + 1), 7 - pixel_x)

get_sprite_pixel(p, tile_index, pixel_x, pixel_y) ==
    TilePixel(p, tile_index * 16, pixel_x, pixel_y)

\* BackgroundRenderer::get_tile_pixel; pixel_x counts from the right there.
get_tile_pixel(p, tile_index, pixel_x, pixel_y, tile_data_area) ==
    TilePixel(p,
              IF tile_data_area THEN tile_index * 16
              ELSE IF tile_index < 128 THEN SIGNED_TILE_BASE + tile_index * 16
              ELSE SIGNED_TILE_BASE - (256 - tile_index) * 16,
              pixel_x, pixel_y)

render_background_line(p, line) ==
    IF ~is_bg_window_enabled(p.registers)
    THEN [x \in ScreenXs |-> 0]
    ELSE LET bg_line == (p.registers.scy + line) % 256
             tile_map_base == IF bg_tile_map_area(p.registers) THEN TILE_MAP_1 ELSE TILE_MAP_0
         IN  [x \in ScreenXs |->
                LET bg_x == (p.registers.scx + x) % 256
                IN  get_tile_pixel(p, VramAt(p, tile_map_base + (bg_line \div 8) * 32 + bg_x \div 8),
                                   7 - (bg_x % 8), bg_line % 8,
                                   bg_window_tile_data_area(p.registers))]

\* Whether render_window_line draws on the line: the window and the
\* background are enabled and the line is at or below WY.
window_on_line(p, line) ==
    /\ is_window_enabled(p.registers)
    /\ is_bg_window_enabled(p.registers)
    /\ line >= p.registers.wy

\* Whether the increment of window_internal_line overflows a u8, on which a
\* build with overflow checks panics.
render_window_line_overflows(p, line) ==
    window_on_line(p, line) /\ p.window_internal_line = 255

\* BackgroundRenderer::render_window_line: the buffer with the window drawn
\* over it and the window line counter, its increment wrapping.
render_window_line(p, line, buffer) ==
    IF ~window_on_line(p, line)
    THEN [buffer |-> buffer, window_internal_line |-> p.window_internal_line]
    ELSE LET window_x == IF p.registers.wx < 7 THEN 0 ELSE p.registers.wx - 7
             tile_map_base ==
                 IF window_tile_map_area(p.registers) THEN TILE_MAP_1 ELSE TILE_MAP_0
             tile_row == p.window_internal_line \div 8
             pixel_row == p.window_internal_line % 8
         IN  [buffer |->
                 [x \in ScreenXs |->
                     IF x < window_x THEN buffer[x]
                     ELSE get_tile_pixel(p,
                              VramAt(p, tile_map_base + tile_row * 32
                                            + (x - window_x) \div 8),
                              7 - ((x - window_x) % 8), pixel_row,
                              bg_window_tile_data_area(p.registers))],
              window_internal_line |-> (p.window_internal_line + 1) % 256]

\* render_sprite on the buffers bufs = [sprite_buffer, priority_buffer]; the
\* eight pixels of a sprite fall on eight different screen columns.
render_sprite(p, sprite, line, sprite_height, bg_buffer, bufs) ==
    LET row0 == (line - screen_y(sprite)) % 256
        row1 == IF is_y_flipped(sprite) THEN (sprite_height - 1) - row0 ELSE row0
        tile_index == IF sprite_height = 16
                      THEN IF row1 < 8 THEN sprite.tile_index - Bit(sprite.tile_index, 0)
                           ELSE sprite.tile_index - Bit(sprite.tile_index, 0) + 1
                      ELSE sprite.tile_index
        sprite_row == IF sprite_height = 16 /\ row1 >= 8 THEN row1 - 8 ELSE row1
        pixel_x(x) == x - screen_x(sprite)
        color_id(x) == get_sprite_pixel(p, tile_index,
                                        IF is_x_flipped(sprite) THEN 7 - pixel_x(x)
                                        ELSE pixel_x(x),
                                        sprite_row)
        should_render(x) ==
            /\ pixel_x(x) \in 0 .. 7
            /\ color_id(x) # 0
            /\ ~bufs.priority_buffer[x]
            /\ (has_priority(sprite) \/ bg_buffer[x] = 0)
    IN  [sprite_buffer |->
            [x \in ScreenXs |->
                IF should_render(x)
                THEN get_sprite_color(p.registers, palette(sprite), color_id(x))
                ELSE bufs.sprite_buffer[x]],
         priority_buffer |->
            [x \in ScreenXs |-> bufs.priority_buffer[x] \/ should_render(x)]]

\* The loop of render_sprites_line over line_sprites in reverse, from the
\* sprite at position i down to the first.
RECURSIVE RenderFrom(_, _, _, _, _, _)
RenderFrom(p, i, line, sprite_height, bg_buffer, bufs) ==
    IF i = 0 THEN bufs
    ELSE RenderFrom(p, i - 1, line, sprite_height, bg_buffer,
                    render_sprite(p, p.line_sprites[i], line, sprite_height, bg_buffer, bufs))

render_sprites_line(p, line, bg_buffer) ==
    IF ~is_sprites_enabled(p.registers)
    THEN [sprite_buffer |-> p.sprite_buffer, priority_buffer |-> p.sprite_priority_buffer]
    ELSE RenderFrom(p, Len(p.line_sprites), line,
                    IF sprite_size(p.registers) THEN 16 ELSE 8, bg_buffer,
                    [sprite_buffer |-> [x \in ScreenXs |-> 0],
                     priority_buffer |-> [x \in ScreenXs |-> FALSE]])

composite_line(p, bg_buffer, bufs) ==
    [x \in ScreenXs |->
        IF bufs.priority_buffer[x] /\ bufs.sprite_buffer[x] # 0
        THEN bufs.sprite_buffer[x]
        ELSE get_bg_color(p.registers, bg_buffer[x])]

\* render_scanline: background, window, sprites, composite, copy.
render_scanline(p) ==
    IF p.scanline >= VISIBLE_SCANLINES THEN p
    ELSE LET window == render_window_line(p, p.scanline,
                                          render_background_line(p, p.scanline))
             bg_buffer == window.buffer
             bufs == render_sprites_line(p, p.scanline, bg_buffer)
             line_buffer == composite_line(p, bg_buffer, bufs)
         IN  [p EXCEPT !.line_buffer = line_buffer,
                       !.window_internal_line = window.window_internal_line,
                       !.sprite_buffer = bufs.sprite_buffer,
                       !.sprite_priority_buffer = bufs.priority_buffer,
                       !.framebuffer =
                           [l \in DOMAIN p.framebuffer |->
                               IF l = p.scanline
                               THEN [x \in ScreenXs |-> gb_color_to_rgba(line_buffer[x])]
                               ELSE p.framebuffer[l]]]

\* Ppu::step on a rendering PPU: handle_oam_scan scans OAM when it leaves
\* OamScan and handle_drawing renders the line when it leaves Drawing.
step_rendering(p, cycles) ==
    LET r == step(p, cycles)
    IN  IF p.mode = "OamScan" /\ r.ppu.mode = "Drawing"
        THEN [r EXCEPT !.ppu = scan_sprites_for_line(r.ppu, p.scanline,
                                   IF sprite_size(p.registers) THEN 16 ELSE 8)]
        ELSE IF p.mode = "Drawing" /\ r.ppu.mode = "HBlank"
        THEN [r EXCEPT !.ppu = render_scanline(r.ppu)]
        ELSE r

StepRendering(cycles) ==
    /\ ppu' = step_rendering(ppu, cycles).ppu
    /\ last' = Did("step_ppu", 0, 0, 0, step_rendering(ppu, cycles).irq)
    /\ UNCHANGED <<busVars, cpuVars, memVars, panicked, execVars, scenarioVars>>

(***************************************************************************)
(* SpecRender: a PPU at the start of line 0 with LCDC = 0x83, BGP = OBP0 = *)
(* OBP1 = 0xE4, tile 0 all color 1, tile 1 all color 2, a blank or a solid *)
(* background, sprite 0 showing tile 0 and sprite 1 showing tile 1,        *)
(* stepped through the line.                                               *)
(***************************************************************************)
SpriteYs == {0, 16}             \* off screen, or on lines 0..7
SpriteXs == {12, 16, 20}
SpriteAttrs == {0, 128}
BgRows == {0, 255}              \* low bit plane of every row of background tile 0
RenderCycles == {80, 172, 204}
Scenes(tile) == [y : SpriteYs, x : SpriteXs, tile_index : {tile}, attributes : SpriteAttrs]

RenderVram(bg) ==
    [a \in (ADDR_VRAM .. (ADDR_VRAM + 31))
            \cup ((ADDR_VRAM + SIGNED_TILE_BASE) .. (ADDR_VRAM + SIGNED_TILE_BASE + 15)) |->
        LET offset == a - ADDR_VRAM
        IN  IF offset < 16 THEN (IF offset % 2 = 0 THEN 255 ELSE 0)
            ELSE IF offset < 32 THEN (IF offset % 2 = 0 THEN 0 ELSE 255)
            ELSE IF offset % 2 = 0 THEN bg ELSE 0]

RenderOam(s0, s1) ==
    [a \in ADDR_OAM .. (ADDR_OAM + 7) |->
        LET s == IF a < ADDR_OAM + 4 THEN s0 ELSE s1
        IN  CASE (a - ADDR_OAM) % 4 = 0 -> s.y
              [] (a - ADDR_OAM) % 4 = 1 -> s.x
              [] (a - ADDR_OAM) % 4 = 2 -> s.tile_index
              [] (a - ADDR_OAM) % 4 = 3 -> s.attributes]

RenderPpu(s0, s1, bg) ==
    [mode |-> "OamScan", dots |-> 0, scanline |-> 0,
     registers |-> [lcdc |-> 131, stat |-> 0, ly |-> 0, lyc |-> 0, scy |-> 0, scx |-> 0,
                    bgp |-> 228, obp0 |-> 228, obp1 |-> 228, wy |-> 0, wx |-> 0],
     vram |-> RenderVram(bg),
     oam |-> RenderOam(s0, s1),
     frame_ready |-> FALSE,
     line_sprites |-> <<>>,
     line_buffer |-> [x \in ScreenXs |-> 0],
     sprite_buffer |-> [x \in ScreenXs |-> 0],
     sprite_priority_buffer |-> [x \in ScreenXs |-> FALSE],
     window_internal_line |-> 0,
     framebuffer |-> [l \in 0 .. MaxLine |-> [x \in ScreenXs |-> <<0, 0, 0, 0>>]]]

InitRender ==
    \E s0 \in Scenes(0), s1 \in Scenes(1), bg \in BgRows :
        InitWith(ZeroRom, RenderPpu(s0, s1, bg), Constructed)

NextRender ==
    \E c \in RenderCycles : ppu.scanline < MaxLine /\ StepRendering(c)

SpecRender == InitRender /\ [][NextRender]_vars

\* The line the PPU is on has just been rendered.
LineRendered == ppu.mode = "HBlank"

\* Sprite s has an opaque pixel at screen column x of the line being shown.
OpaqueAt(s, x) ==
    /\ is_on_line(s, ppu.scanline, 8)
    /\ (x - screen_x(s)) \in 0 .. 7
    /\ get_sprite_pixel(ppu, s.tile_index, x - screen_x(s), ppu.scanline - screen_y(s)) # 0

\* The color sprite s shows at screen column x.
ShownColor(s, x) ==
    get_sprite_color(ppu.registers, palette(s),
                     get_sprite_pixel(ppu, s.tile_index, x - screen_x(s),
                                      ppu.scanline - screen_y(s)))

\* C27: on a rendered line, wherever the sprites of OAM entries 0 and 1 (both
\* in front of the background) each have an opaque pixel at the same screen X,
\* the pixel shown is that of the sprite with the lower X coordinate, and that
\* of entry 0 when the X coordinates are equal.
C27_LowerXSpriteWins ==
    LET s0 == Sprite_from_oam(ppu, 0)
        s1 == Sprite_from_oam(ppu, 1)
    IN  LineRendered =>
            \A x \in ScreenXs :
                (OpaqueAt(s0, x) /\ OpaqueAt(s1, x) /\ has_priority(s0) /\ has_priority(s1)) =>
                    ppu.line_buffer[x] = ShownColor(IF s0.x <= s1.x THEN s0 ELSE s1, x)

\* Line 0 has been rendered into the framebuffer.
Line0Rendered == ppu.scanline > 0 \/ (ppu.scanline = 0 /\ LineRendered)

\* LCDC = 0x83, BGP = OBP0 = 0xE4, tile 0 all color 1, OAM entry 0 holding
\* (Y=16, X=16, tile 0, attributes 0) and no other sprite on the screen.
BasicSpriteScene ==
    /\ ppu.registers.lcdc = 131
    /\ ppu.registers.bgp = 228
    /\ ppu.registers.obp0 = 228
    /\ \A row \in 0 .. 7 : VramAt(ppu, row * 2) = 255 /\ VramAt(ppu, row * 2 + 1) = 0
    /\ Sprite_from_oam(ppu, 0) = [y |-> 16, x |-> 16, tile_index |-> 0, attributes |-> 0]
    /\ \A i \in 1 .. (OAM_SPRITES - 1) : Sprite_from_oam(ppu, i).y = 0

\* C28: with LCDC = 0x83, BGP = OBP0 = 0xE4, tile 0 all color 1 and sprite 0
\* at (Y=16, X=16, tile 0, attributes 0), once line 0 has been rendered the
\* framebuffer pixels of line 0 at X = 8..15 are RGBA (139, 172, 15, 255).
C28_BasicSpritePixels ==
    (BasicSpriteScene /\ Line0Rendered) =>
        \A x \in 8 .. 15 : ppu.framebuffer[0][x] = <<139, 172, 15, 255>>

\* C28 witness: the scene has been rendered and pixel 8 of line 0 is the
\* sprite's light green while pixel 7 is not.
C28_Witness ==
    /\ BasicSpriteScene
    /\ Line0Rendered
    /\ ppu.framebuffer[0][8] = <<139, 172, 15, 255>>
    /\ ppu.framebuffer[0][7] # <<139, 172, 15, 255>>

(***************************************************************************)
(* SpecDots: from construction (LCD enabled, line 0, dot 0) the PPU is     *)
(* handed dots in calls of several sizes, and the dots handed over are     *)
(* counted.                                                                *)
(***************************************************************************)
DotChoices == {4, 80, 172, 255}     \* dots handed to one Ppu::step call

DeliverDots(cycles) ==
    /\ ppu.scanline < MaxLine
    /\ StepPpu(cycles)
    /\ delivered' = delivered + cycles
    /\ UNCHANGED <<mcycles, vblanks>>

InitDots == Init

NextDots == \E c \in DotChoices : DeliverDots(c)

SpecDots == InitDots /\ [][NextDots]_vars

\* C29: every scanline takes exactly 456 dots however they are delivered: ly
\* is k exactly when the dots delivered since line 0 began have reached
\* 456 * k and not yet 456 * (k + 1), and within the line the mode is the one
\* the 80 / 172 / 204 partition gives, so that no dot is lost at a mode
\* transition and one step may cross several mode boundaries.
C29_ScanlineTakes456Dots ==
    LET dot == delivered % DOTS_PER_SCANLINE
    IN  /\ ppu.scanline = delivered \div DOTS_PER_SCANLINE
        /\ ppu.registers.ly = delivered \div DOTS_PER_SCANLINE
        /\ ppu.mode = (IF dot < OAM_SCAN_DOTS THEN "OamScan"
                       ELSE IF dot < OAM_SCAN_DOTS + DRAWING_DOTS THEN "Drawing"
                       ELSE "HBlank")

(***************************************************************************)
(* SpecLive: the host loop of test_full_frame_cycle.  The PPU, constructed *)
(* with the LCD enabled, is stepped again and again with at least one dot  *)
(* per call, and the host fetches the framebuffer when it finds            *)
(* frame_ready set.  The loop never stops stepping: weak fairness on the   *)
(* step.                                                                   *)
(***************************************************************************)
LiveCycles == {1, 255}

StepLive == \E c \in LiveCycles : StepPpu(c) /\ UNCHANGED scenarioVars

FetchFrame == is_frame_ready(ppu) /\ GetFramebuffer

InitLive == Init

NextLive == StepLive \/ FetchFrame

SpecLive == InitLive /\ [][NextLive]_vars /\ WF_vars(StepLive)

\* C30: with the LCD enabled and the PPU stepped repeatedly with at least one
\* dot per call, frame_ready eventually becomes true, and after every
\* get_framebuffer() it eventually becomes true again: at every point of
\* every run frame_ready is true at that point or at a later one.
C30_FrameReadyRecurs == []<>is_frame_ready(ppu)

\* C30 witness: a frame has been fetched, the latch is clear and the PPU, in
\* VBlank, is being stepped towards the next frame.
C30_Witness ==
    /\ LcdOn
    /\ last.op = "get_framebuffer"
    /\ ~is_frame_ready(ppu)
    /\ ppu.mode = "VBlank"

\* C31: with STAT bit 6 set, every PPU step that changes ly to a value equal
\* to LYC returns the LCD interrupt, for LYC = 0 and LYC in 144..153 as for
\* the visible lines, whether or not STAT bit 5 is set.
C31_LycMatchRaisesLcd ==
    [][(/\ last'.op = "step_ppu"
        /\ ppu'.registers.ly # ppu.registers.ly
        /\ ppu'.registers.ly = ppu'.registers.lyc
        /\ is_lyc_interrupt_enabled(ppu.registers))
       => "LCD" \in Raised(last'.irq)]_vars

\* C32: while LCDC bit 7 is 0 a read of LY (0xFF44) returns 0 and a read of
\* STAT (0xFF41) has bits 1..0 equal to 0, whatever scanline and mode the PPU
\* was in when the LCD was switched off.
C32_LcdOffReadsZero ==
    ~LcdOn =>
        /\ MemoryBus_read(Bus, ADDR_LY) = Some(0)
        /\ MemoryBus_read(Bus, ADDR_STAT).value % 4 = 0

\* C33: a write to 0xFF50 leaves the CPU status unchanged, and the status
\* becomes Stopped only in the step that executes the STOP opcode.
C33_BootOffWriteKeepsStatus ==
    /\ [][(last'.op = "cpu_write" /\ last'.addr = ADDR_BOOT_OFF) => status' = status]_vars
    /\ [][(status # "Stopped" /\ status' = "Stopped") => Executed("Stop")]_vars

(***************************************************************************)
(* SpecReg: the 8-bit setters of Register applied, in any order, to the    *)
(* register file that Cpu::reset leaves.                                   *)
(***************************************************************************)
Reg8 == {"a", "b", "c", "d", "e", "h", "l"}
RegBytes == {0, 90, 255}        \* 0x00, 0x5A, 0xFF

get_r(r, name) ==
    CASE name = "a" -> get_a(r) [] name = "b" -> get_b(r) [] name = "c" -> get_c(r)
      [] name = "d" -> get_d(r) [] name = "e" -> get_e(r) [] name = "h" -> get_h(r)
      [] name = "l" -> get_l(r) [] name = "f" -> get_f(r)

set_r(r, name, value) ==
    CASE name = "a" -> set_a(r, value) [] name = "b" -> set_b(r, value)
      [] name = "c" -> set_c(r, value) [] name = "d" -> set_d(r, value)
      [] name = "e" -> set_e(r, value) [] name = "h" -> set_h(r, value)
      [] name = "l" -> set_l(r, value)

SetRegister(name, value) ==
    /\ register' = set_r(register, name, value)
    /\ last' = Did("set_" \o name, 0, value, 0, "None")
    /\ UNCHANGED <<ppu, busVars, cpuVars, memVars, panicked, h_ram, scenarioVars>>

InitReg == Init

NextReg == \E name \in Reg8, value \in RegBytes : SetRegister(name, value)

SpecReg == InitReg /\ [][NextReg]_vars

\* C34: for every 8-bit register r of A, B, C, D, E, H, L, after set_r(v) a
\* get_r() returns v, and the other six 8-bit registers and F are unchanged.
C34_SetThenGet ==
    [][\A name \in Reg8 :
          last'.op = "set_" \o name =>
              /\ get_r(register', name) = last'.value
              /\ \A other \in (Reg8 \cup {"f"}) \ {name} :
                    get_r(register', other) = get_r(register, other)]_vars

CALL_NC_CYCLES == 3

\* C35: a conditional CALL whose condition is false (CALL NC with the carry
\* set) leaves PC, once its three machine cycles are over, at the address of
\* the next instruction, the opcode address + 3, and leaves SP and the stack
\* as they were.
C35_CallNotTaken ==
    (/\ ~panicked
     /\ Fetches
     /\ program_counter \in DOMAIN rom
     /\ rom[program_counter] = OP_CALL_NC
     /\ get_flag(CpuFields, FLAG_C))
        => LET d == Steps(CpuFields, CALL_NC_CYCLES)
           IN  /\ d.step_count = 0
               /\ d.program_counter = program_counter + 3
               /\ d.stack_pointer = stack_pointer
               /\ d.h_ram = h_ram

(***************************************************************************)
(* ADC A, r (Cpu::add_carry, src/src/cpu/execute.rs).  The u8 addition     *)
(* `source + carry` overflows for source 0xFF with the carry set: a build  *)
(* with overflow checks panics there, a build without them wraps to 0.     *)
(***************************************************************************)
\* Cpu::addition: the sum, the carry and the half carry.
addition(a, b) ==
    [result |-> (a + b) % 256,
     c |-> a + b > 255,
     h |-> ((a % 16) + (b % 16)) \div 16 = 1]

\* Whether `source + carry` overflows a u8.
add_carry_overflows(c, name) ==
    get_r(c.register, name) + (IF get_flag(c, FLAG_C) THEN 1 ELSE 0) > 255

\* Cpu::add_carry with the source register `name`, the addition wrapping.
add_carry(c, name) ==
    LET source == (get_r(c.register, name) + (IF get_flag(c, FLAG_C) THEN 1 ELSE 0)) % 256
        sum == addition(get_a(c.register), source)
        c1 == [c EXCEPT !.register = set_a(c.register, sum.result)]
        c2 == update_flag(c1, FLAG_C, sum.c)
        c3 == update_flag(c2, FLAG_H, sum.h)
        c4 == update_flag(c3, FLAG_Z, sum.result = 0)
    IN  clear_flag(c4, FLAG_N)

\* process_instruction on Instruction::AddCarry(name): either outcome of an
\* overflowing `source + carry`.
AddCarry(name) ==
    /\ ~panicked
    /\ \/ /\ add_carry_overflows(CpuFields, name)
          /\ panicked' = TRUE
          /\ UNCHANGED register
       \/ /\ panicked' = FALSE
          /\ register' = add_carry(CpuFields, name).register
    /\ last' = Did("adc", 0, get_r(register, name), 0, "None")
    /\ UNCHANGED <<ppu, busVars, cpuVars, memVars, h_ram, scenarioVars>>

(***************************************************************************)
(* SpecAlu: ADC A, C and ADC A, E on register files built with set_a,      *)
(* set_c and set_e from the one Cpu::reset leaves.                         *)
(***************************************************************************)
AluSources == {"c", "e"}
AluBytes == {0, 15, 255}

InitAlu == Init

NextAlu ==
    \/ \E name \in AluSources : AddCarry(name)
    \/ \E name \in AluSources \cup {"a"}, value \in AluBytes :
          ~panicked /\ SetRegister(name, value)

SpecAlu == InitAlu /\ [][NextAlu]_vars

CarryIn == IF get_flag(CpuFields, FLAG_C) THEN 1 ELSE 0

\* C36: ADC A, x leaves A = (A + x + carry_in) mod 256, C = (A + x + carry_in
\* > 0xFF), H = ((A & 0xF) + (x & 0xF) + carry_in > 0xF), Z = (result = 0) and
\* N = 0 for every operand, x = 0xFF with carry_in = 1 included, and never
\* fails on an arithmetic overflow.
C36_AdcFlags ==
    [][last'.op = "adc" =>
         LET x == last'.value
             total == get_a(register) + x + CarryIn
             f == get_f(register')
         IN  /\ ~panicked'
             /\ get_a(register') = total % 256
             /\ (BitAnd(f, FLAG_C) = FLAG_C) <=> (total > 255)
             /\ (BitAnd(f, FLAG_H) = FLAG_H)
                    <=> ((get_a(register) % 16) + (x % 16) + CarryIn > 15)
             /\ (BitAnd(f, FLAG_Z) = FLAG_Z) <=> (total % 256 = 0)
             /\ BitAnd(f, FLAG_N) = 0]_vars

(***************************************************************************)
(* SpecBank: MBC1 cartridges of every accepted ROM-size code, loaded with  *)
(* Cart::new, then driven with mapper control writes and ROM reads.  An    *)
(* overflowing shift in get_rom_size and an underflowing `rom_banks - 1`   *)
(* in MBC1::read either panic (overflow checks on) or wrap (checks off).   *)
(***************************************************************************)
\* A valid MBC1 image with the given ROM-size code: the header, and one byte
\* per 16 KiB bank that holds the bank's number.
BankImage(code) ==
    LET unsummed == Image(NINTENDO_LOGO, 0, 1, code, 0, 0, 0)
        header == Image(NINTENDO_LOGO, 0, 1, code, 0, 0,
                        checksum_from(unsummed, ADDR_TITLE, 0))
    IN  [o \in HeaderAddrs \cup RomOffsets(get_rom_size(code).size) |->
            IF o \in HeaderAddrs THEN header[o] ELSE (o \div ROM_BANK_SIZE) % 256]

\* Cart::new(rom) followed by the unwrapping of its result.
CartLoad ==
    /\ ~panicked
    /\ cart = None
    /\ \/ /\ get_rom_size_overflows(rom[ADDR_ROM_SIZE])
          /\ panicked' = TRUE
          /\ UNCHANGED cart
       \/ /\ panicked' = FALSE
          /\ cart' = Cart_new_from(rom).value
    /\ last' = Did("cart_new", 0, 0, 0, "None")
    /\ UNCHANGED <<ppu, busVars, cpuVars, rom, w_ram, w_ram_bank, execVars, scenarioVars>>

\* Cart::read(addr) on the loaded cartridge.
CartRead(addr) ==
    /\ ~panicked
    /\ cart # None
    /\ \/ /\ MBC1_read_overflows(cart, addr)
          /\ panicked' = TRUE
          /\ last' = Did("cart_read", addr, 0, 0, "None")
       \/ /\ panicked' = FALSE
          /\ last' = Did("cart_read", addr, 0, Cart_read(cart, rom, addr).value, "None")
    /\ UNCHANGED <<ppu, busVars, cpuVars, memVars, execVars, scenarioVars>>

BankCtrlWrites ==
    ({8448} \X {0, 3, 31}) \cup ({16384} \X {0, 3}) \cup ({24576} \X {0, 1})
BankReadAddrs == {0, 16384}

InitBank ==
    \E code \in RomSizeCodes : InitWithCart(BankImage(code), Ppu_new, Constructed, None)

NextBank ==
    \/ CartLoad
    \/ \E w \in BankCtrlWrites : cart # None /\ CartWrite(w[1], w[2])
    \/ \E a \in BankReadAddrs : CartRead(a)

SpecBank == InitBank /\ [][NextBank]_vars

\* C37: for every accepted ROM-size code 0x00..0x08 the bank count is
\* 2^(code+1), the number of 16 KiB banks of the image; the MBC1 bank mask
\* rom_banks - 1 is computed without overflow or underflow; and so every read
\* of 0x0000-0x7FFF returns a byte of the ROM image, whatever control writes
\* came before.
C37_BankMaskInRange ==
    /\ ~panicked
    /\ cart # None =>
           /\ cart.rom_banks = cart.rom_size \div ROM_BANK_SIZE
           /\ \A a \in BankReadAddrs :
                  /\ ~MBC1_read_overflows(cart, a)
                  /\ Cart_read(cart, rom, a).some

(***************************************************************************)
(* SpecWindow: a rendering PPU with the window enabled or not, WY = 0 or   *)
(* 16 and WX = 7, stepped through frame after frame.  The increment of the *)
(* window line counter at 255 either panics (overflow checks on) or wraps. *)
(***************************************************************************)
WindowLcdcs == {131, 163}       \* 0x83 window off, 0xA3 window on
WindowYs == {0, 16}
WindowCycles == {204, 255}

\* Ppu::step renders a line on this call.
RendersLine(p, cycles) ==
    /\ p.mode = "Drawing"
    /\ step(p, cycles).ppu.mode = "HBlank"
    /\ p.scanline < VISIBLE_SCANLINES

\* Ppu::step(cycles) on the rendering PPU.
StepWindow(cycles) ==
    /\ ~panicked
    /\ \/ /\ RendersLine(ppu, cycles)
          /\ render_window_line_overflows(ppu, ppu.scanline)
          /\ panicked' = TRUE
          /\ last' = Did("step_ppu", 0, 0, 0, "None")
          /\ UNCHANGED ppu
       \/ /\ panicked' = FALSE
          /\ ppu' = step_rendering(ppu, cycles).ppu
          /\ last' = Did("step_ppu", 0, 0, 0, step_rendering(ppu, cycles).irq)
    /\ UNCHANGED <<busVars, cpuVars, memVars, execVars, scenarioVars>>

WindowPpu(lcdc, wy) ==
    LET p == RenderPpu([y |-> 0, x |-> 0, tile_index |-> 0, attributes |-> 0],
                       [y |-> 0, x |-> 0, tile_index |-> 1, attributes |-> 0], 255)
    IN  [p EXCEPT !.registers.lcdc = lcdc, !.registers.wy = wy, !.registers.wx = 7]

InitWindow ==
    \E lcdc \in WindowLcdcs, wy \in WindowYs :
        InitWith(ZeroRom, WindowPpu(lcdc, wy), Constructed)

NextWindow == \E c \in WindowCycles : StepWindow(c)

SpecWindow == InitWindow /\ [][NextWindow]_vars

\* The PPU is at the start of a frame: line 0, OamScan, no dots yet.
FrameStart == ppu.scanline = 0 /\ ppu.mode = "OamScan" /\ ppu.dots = 0

\* C38: the window line counter is 0 at the start of every frame, and the
\* counter a visible line is rendered with never exceeds 143: it does not
\* accumulate from one frame to the next.
C38_WindowLineResets ==
    /\ FrameStart => ppu.window_internal_line = 0
    /\ (ppu.scanline < VISIBLE_SCANLINES /\ ppu.mode \in {"OamScan", "Drawing"})
           => ppu.window_internal_line <= 143

(***************************************************************************)
(* SpecLayers: the rendering PPU with sprite 0 on lines 0..7, a background *)
(* tile whose rows are blank or have only bit 7 set, SCX = SCY = 0, and    *)
(* the host writing LCDC (sprites on or off) between the steps.            *)
(***************************************************************************)
LayerSpriteXs == {8, 12}
LayerBgRows == {0, 128}         \* 0x80: only bit 7 of the low bit plane
LayerLcdcs == {129, 131}        \* 0x81 sprites off, 0x83 sprites on

InitLayers ==
    \E x \in LayerSpriteXs, bg \in LayerBgRows :
        InitWith(ZeroRom,
                 RenderPpu([y |-> 16, x |-> x, tile_index |-> 0, attributes |-> 128],
                           [y |-> 0, x |-> 0, tile_index |-> 1, attributes |-> 0], bg),
                 Constructed)

NextLayers ==
    \/ \E c \in RenderCycles : ppu.scanline <= MaxLine /\ StepRendering(c)
    \/ \E v \in LayerLcdcs : ppu.scanline <= MaxLine /\ BusWrite(ADDR_LCDC, v)

SpecLayers == InitLayers /\ [][NextLayers]_vars

\* This step renders the line the PPU is on.
RendersNow ==
    /\ ppu.mode = "Drawing"
    /\ ppu'.mode = "HBlank"
    /\ ppu.scanline \in DOMAIN ppu.framebuffer

\* The background and window color ids of the line the PPU is on.
BgWindowLine ==
    render_window_line(ppu, ppu.scanline, render_background_line(ppu, ppu.scanline)).buffer

\* C39: a line rendered while LCDC bit 1 is 0 shows no sprite pixel: every
\* framebuffer pixel of the line is the BGP-translated background or window
\* color, whatever sprites the lines before it showed.
C39_SpritesOffShowsBackground ==
    [][(RendersNow /\ ~is_sprites_enabled(ppu.registers)) =>
          \A x \in ScreenXs :
              ppu'.framebuffer[ppu.scanline][x]
                  = gb_color_to_rgba(get_bg_color(ppu.registers, BgWindowLine[x]))]_vars

\* The color id the tile row under screen column x gives when bit 7 is the
\* leftmost pixel, as in get_sprite_pixel: bit 7 - (x mod 8) of the two bytes.
Bit7LeftColorId(x) ==
    get_tile_pixel(ppu,
                   VramAt(ppu, (IF bg_tile_map_area(ppu.registers)
                                THEN TILE_MAP_1 ELSE TILE_MAP_0)
                               + (ppu.scanline \div 8) * 32 + x \div 8),
                   x % 8, ppu.scanline % 8, bg_window_tile_data_area(ppu.registers))

\* C40: in a background line rendered with SCX = 0 (and SCY = 0), the pixel
\* at screen column x has the color id of bit 7 - (x mod 8) of the tile row's
\* two bytes, the convention of sprite rendering; seen in the framebuffer
\* wherever no sprite pixel covers the background.
C40_BackgroundBit7Leftmost ==
    [][(/\ RendersNow
        /\ is_bg_window_enabled(ppu.registers)
        /\ ~is_window_enabled(ppu.registers)
        /\ ppu.registers.scx = 0
        /\ ppu.registers.scy = 0) =>
          \A x \in ScreenXs :
              ~ppu'.sprite_priority_buffer[x] =>
                  ppu'.framebuffer[ppu.scanline][x]
                      = gb_color_to_rgba(get_bg_color(ppu.registers, Bit7LeftColorId(x)))]_vars

====
